---- MODULE Spec2Model ----
(***************************************************************************)
(* Session and error state machine of the Somfy Protexial client           *)
(* (custom_components/somfy_protexial/protexial.py).                        *)
(*                                                                         *)
(* Every coroutine of SomfyProtexial is a frame on the call stack of the   *)
(* task that runs it.  A task runs without interruption until it awaits an *)
(* HTTP request (asyncio is cooperative); `running` holds the task that    *)
(* owns the event loop.  The panel answers every request with any response *)
(* it can produce.                                                         *)
(***************************************************************************)
EXTENDS Integers, Sequences, FiniteSets, TLC

VARIABLES
    cookie,         \* self.cookie
    stack,          \* per task: the coroutine frames, innermost last
    http,           \* per task: the request in flight and its response
    ret,            \* per task: value or exception handed to the caller frame
    running,        \* task that owns the event loop, NoTask when it is free
    result,         \* per task: outcome of the last caller-facing operation
    nLogins,        \* per task: __login invocations of the current operation
    nMain,          \* per task: sends of the operation's own request
    nReset,         \* per task: reset-session POSTs of the current operation
    mainHist,       \* per task: responses to the operation's own request
    clean,          \* per task: every other request was answered normally
    lastSetCookie,  \* Set-Cookie value of the most recent completed login
    sent,           \* per task: whose requests the current operation sent,
                    \* and "logged_in" once a login of it has completed
    card,           \* get_challenge_card's loop over the scraped cells
    guess,          \* guess_and_set_api_type: its position, self.api, self.api_type
    parser          \* a parser or another pure function: argument and value

vars == <<cookie, stack, http, ret, running, result,
          nLogins, nMain, nReset, mainHist, clean, lastSetCookie, sent,
          card, guess, parser>>

\* the variables of the session and of its callers
sessVars == <<cookie, stack, http, ret, running, result,
              nLogins, nMain, nReset, mainHist, clean, lastSetCookie, sent>>

\* the variables of the operations that are modelled on their own
auxVars == <<card, guess, parser>>
notCard == <<guess, parser>>
notGuess == <<card, parser>>
notFn == <<card, guess>>

(***************************************************************************)
(* Bounds of the model.                                                    *)
(***************************************************************************)
MaxLogins == 3      \* __login invocations explored per operation
MaxCookie == 2      \* distinct Set-Cookie values the panel hands out

(***************************************************************************)
(* Values.                                                                 *)
(***************************************************************************)
NoCookie == 0       \* self.cookie = None, or no Cookie / Set-Cookie header
NoTask == 0
Tasks == {1, 2}
SeqTasks == {1}     \* the task of a sequentially used session
CookieVals == 1..MaxCookie

WRONG_CODE == "(0x0B00)"
MAX_LOGIN_ATTEMPS == "(0x0904)"
WRONG_CREDENTIALS == "(0x0812)"
SESSION_ALREADY_OPEN == "(0x0902)"
NOT_AUTHORIZED == "(0x0903)"
UNKNOWN_PARAMETER == "(0x1003)"
SomfyError == {WRONG_CODE, MAX_LOGIN_ATTEMPS, WRONG_CREDENTIALS,
               SESSION_ALREADY_OPEN, NOT_AUTHORIZED, UNKNOWN_PARAMETER}
\* codes the panel may show that SomfyError does not list
OtherCodes == {"(0x0001)", "(0x0B01)"}
\* the error page holds no element for the error-code selector
NoElement == "<none>"

\* self.codes: the configured challenge-code table (its keys)
CodesTable == {"A1"}
\* challenge texts a login page may show; NoElement: no challenge element
Challenges == {"A1", "F5", NoElement}

\* response.real_url.path against api.get_page(Page.DEFAULT / Page.ERROR)
Paths == {"default", "error", "other"}
BadStatus == {404, 500}

Ops == {"init", "logout", "command", "get_status"}

(***************************************************************************)
(* Records.                                                                *)
(***************************************************************************)
Resp(kind, status, path, code, challenge, setCookie) ==
    [kind |-> kind, status |-> status, path |-> path, code |-> code,
     challenge |-> challenge, setCookie |-> setCookie]

NoResp == Resp("none", 0, "", "", "", NoCookie)

Exc(cls, err, code, status, page) ==
    [cls |-> cls, err |-> err, code |-> code, status |-> status, page |-> page]

NoExc == Exc("", "", "", 0, "")

NoRet == [kind |-> "none", resp |-> NoResp, val |-> "", exc |-> NoExc]
RetResp(r) == [kind |-> "resp", resp |-> r, val |-> "", exc |-> NoExc]
RetVal(v) == [kind |-> "val", resp |-> NoResp, val |-> v, exc |-> NoExc]
RetExc(e) == [kind |-> "exc", resp |-> NoResp, val |-> "", exc |-> e]

Frame(fn, pc) ==
    [fn |-> fn, pc |-> pc, op |-> "", method |-> "", page |-> "", data |-> "",
     retry |-> FALSE, login |-> FALSE, auth |-> FALSE, hdr |-> NoCookie,
     role |-> "", hasCode |-> FALSE, why |-> ""]

\* __do_call(method, page, headers, data, retry, login, authenticated);
\* hdr is the Cookie entry of `headers`, role says whose request it is, why
\* is the branch (dispatch tag) that made the call await a login or a reset
CallFrame(method, page, hdr, data, retry, login, auth, role) ==
    [Frame("call", "start") EXCEPT !.method = method, !.page = page,
        !.hdr = hdr, !.data = data, !.retry = retry, !.login = login,
        !.auth = auth, !.role = role]

\* __login(username, password, code); hasCode: an explicit code is supplied
LoginFrame(hasCode) == [Frame("login", "start") EXCEPT !.hasCode = hasCode]

\* get_challenge()
ChallengeFrame == Frame("challenge", "start")

OpFrame(op) == [Frame("op", "await") EXCEPT !.op = op]

NoReq == [method |-> "", page |-> "", data |-> "", hdr |-> NoCookie,
          auth |-> FALSE, retry |-> FALSE, role |-> "", stored |-> NoCookie]

Idle == [state |-> "idle", req |-> NoReq, resp |-> NoResp]

Top(t) == stack[t][Len(stack[t])]
Pop(s) == SubSeq(s, 1, Len(s) - 1)
SetTop(s, f) == [s EXCEPT ![Len(s)] = f]

\* the task may run: it owns the event loop
Runs(t) == running = t
\* the frame on top of t's stack is fn at pc, and t runs
At(t, fn, pc) ==
    /\ Runs(t)
    /\ Len(stack[t]) > 0
    /\ Top(t).fn = fn
    /\ Top(t).pc = pc

(***************************************************************************)
(* The panel.                                                              *)
(***************************************************************************)
\* what a response to req may carry where the client reads it
ChallengesFor(req) ==
    IF req.method = "get" /\ req.page = "login" THEN Challenges ELSE {NoElement}

SetCookiesFor(req) ==
    IF req.data = "login_form" THEN CookieVals \cup {NoCookie} ELSE {NoCookie}

Responses(req) ==
    {Resp("timeout", 0, "", NoElement, NoElement, NoCookie),
     Resp("transport", 0, "", NoElement, NoElement, NoCookie)}
    \cup {Resp("resp", s, p, NoElement, NoElement, NoCookie) :
            s \in BadStatus, p \in Paths}
    \cup {Resp("resp", 200, "default",
               NoElement, ch, sc) :
            ch \in (IF req.retry THEN {NoElement} ELSE ChallengesFor(req)),
            sc \in SetCookiesFor(req)}
    \cup {Resp("resp", 200, "error", c, NoElement, NoCookie) :
            c \in SomfyError \cup OtherCodes \cup {NoElement}}
    \cup {Resp("resp", 200, "other", NoElement, ch, sc) :
            ch \in ChallengesFor(req), sc \in SetCookiesFor(req)}

(***************************************************************************)
(* Initial state: the client after __init__.                               *)
(***************************************************************************)
(***************************************************************************)
(* get_challenge_card, lines 404-414: the loop over the scraped cells.     *)
(***************************************************************************)
MaxCells == 31      \* cells on the card page, one more than the 6 x 5 grid
MaxSeed == 2        \* the cells' texts are drawn from rotations of CellTexts

\* line 405
chars == <<"A", "B", "C", "D", "E", "F">>

\* elmt.text of a cell: a code, a code with leading zeros, an empty cell
CellTexts == <<"1234", "0007", "">>

Digits == <<"0", "1", "2", "3", "4", "5", "6", "7", "8", "9">>

\* the decimal digits an f-string writes for a non-negative int, line 413
RECURSIVE Str(_)
Str(n) ==
    IF n < 10 THEN <<Digits[n + 1]>>
    ELSE Str(n \div 10) \o <<Digits[(n % 10) + 1]>>

\* line 413: f"{chars[col_index]}{row_index}", as its characters
Key(col_index, row_index) == <<chars[col_index + 1]>> \o Str(row_index)

NextRowLate(col_index, row_index) ==
    IF col_index = 5 THEN row_index + 1 ELSE row_index

\* lines 411-412
NextRow(col_index, row_index) ==
    IF col_index = 0 THEN row_index + 1 ELSE row_index

\* d[k] = v on a dict, which keeps insertion order
DictSet(d, k, v) ==
    IF \E i \in DOMAIN d : d[i].key = k
    THEN [i \in DOMAIN d |->
            IF d[i].key = k THEN [key |-> k, val |-> v] ELSE d[i]]
    ELSE Append(d, [key |-> k, val |-> v])

\* lines 404-408: the loop's variables before the first cell
NoCard ==
    [pc |-> "idle", cells |-> <<>>, global_index |-> 0, row_index |-> 0,
     col_index |-> 0, challenges |-> <<>>]

\* a card page of n cells
Cells(n, seed) ==
    [i \in 1..n |-> CellTexts[((seed + i) % Len(CellTexts)) + 1]]

(***************************************************************************)
(* guess_and_set_api_type and do_guess_get, lines 246-317.                 *)
(***************************************************************************)
\* line 248: the candidates, in the order they are tried
ApiOrder == <<"protexial_io", "protexial", "protexiom">>
ApiTypes == {ApiOrder[i] : i \in DOMAIN ApiOrder}
NoApi == "none"     \* api_type = None

\* const.py line 22, CHALLENGE_REGEX = r"[A-F]{1}[1-5]{1}": its two classes
RegexLetters == {"A", "B", "C", "D", "E", "F"}
RegexDigits == {"1", "2", "3", "4", "5"}

\* texts the login-challenge selector may extract, as their characters; the
\* empty text is also what a page without the element gives
GuessTexts ==
    {<<>>, <<"A", "1">>, <<"F", "5">>, <<"A", "1", "x">>, <<"C", "3", "4">>,
     <<"G", "1">>, <<"A", "6">>, <<"A", "0">>, <<"A">>, <<"1", "A">>,
     <<"a", "1">>}

ReMatchWhole(text) ==
    /\ Len(text) = 2
    /\ text[1] \in RegexLetters
    /\ text[2] \in RegexDigits

\* line 272, re.match(CHALLENGE_REGEX, challenge): the pattern is matched at
\* the start of the text, and the text may go on after the match
ReMatch(text) ==
    /\ Len(text) >= 2
    /\ text[1] \in RegexLetters
    /\ text[2] \in RegexDigits

\* an answer to a probe: a response, or the request fails
Probe(kind, status, decodable, text) ==
    [kind |-> kind, status |-> status, decodable |-> decodable, text |-> text]

\* what the panel may answer to the GET of a version or a login page
ProbeResponses(page) ==
    {Probe("resp", 200, TRUE, x) :
        x \in IF page = "login" THEN GuessTexts ELSE {<<>>}}
    \cup {Probe("resp", 200, FALSE, <<>>)}
    \cup {Probe("resp", st, TRUE, <<>>) : st \in {302} \cup BadStatus}
    \cup {Probe(k, 0, TRUE, <<>>) : k \in {"timeout", "client_error", "other_error"}}

GuessBody(x) == [kind |-> "body", text |-> x, e |-> NoExc]
GuessNone == [kind |-> "none", text |-> <<>>, e |-> NoExc]
GuessExc(e) == [kind |-> "exc", text |-> <<>>, e |-> e]

Unavailable == Exc("Somfy", "Unavailable, please retry later", "", 302, "")
DetectionFailed == Exc("Somfy", "Couldn't detect the centrale type", "", 0, "")

do_guess_get_redirect_none(page, r) ==
    IF r.kind = "timeout" THEN GuessExc(Exc("Somfy", "Timeout", "", 0, page))
    ELSE IF r.kind = "client_error"
    THEN GuessExc(Exc("Somfy", "Transport", "", 0, page))
    ELSE IF r.kind = "other_error" THEN GuessNone
    ELSE IF r.status = 200
    THEN IF r.decodable THEN GuessBody(r.text) ELSE GuessNone
    ELSE GuessNone

\* do_guess_get, lines 280-317: the body of a 200, an exception for a 302, a
\* timeout or a transport error, None otherwise
do_guess_get(page, r) ==
    IF r.kind = "timeout" THEN GuessExc(Exc("Somfy", "Timeout", "", 0, page))
    ELSE IF r.kind = "client_error"
    THEN GuessExc(Exc("Somfy", "Transport", "", 0, page))
    ELSE IF r.kind = "other_error" THEN GuessNone
    ELSE IF r.status = 200
    THEN IF r.decodable THEN GuessBody(r.text) ELSE GuessNone
    ELSE IF r.status = 302 THEN GuessExc(Unavailable)
    ELSE GuessNone

VersionPassedAlways(has_version_page, version_body) == TRUE

\* line 258: not has_version_page or version_body is not None
VersionPassed(has_version_page, version_body) ==
    ~has_version_page \/ version_body.kind # "none"

\* the for statement of line 248 moves to the next candidate
NextCandidate(idx) == idx + 1

\* before guess_and_set_api_type is called: api_type = None (lines 64, 71)
NoGuess ==
    [pc |-> "idle", idx |-> 1, api |-> NoApi, api_type |-> NoApi,
     hasVersion |-> [a \in ApiTypes |-> FALSE], probes |-> <<>>,
     result |-> NoRet]

\* no parser has been applied
NoFn == [name |-> "", pc |-> "idle", arg |-> <<>>, val |-> <<>>]

\* the session after __init__ (line 76: self.cookie = None), no caller yet
InitSession ==
    /\ cookie = NoCookie
    /\ stack = [t \in Tasks |-> <<>>]
    /\ http = [t \in Tasks |-> Idle]
    /\ ret = [t \in Tasks |-> NoRet]
    /\ running = NoTask
    /\ result = [t \in Tasks |-> [op |-> "", ret |-> NoRet]]
    /\ nLogins = [t \in Tasks |-> 0]
    /\ nMain = [t \in Tasks |-> 0]
    /\ nReset = [t \in Tasks |-> 0]
    /\ mainHist = [t \in Tasks |-> <<>>]
    /\ clean = [t \in Tasks |-> TRUE]
    /\ lastSetCookie = NoCookie
    /\ sent = [t \in Tasks |-> {}]

\* none of the operations modelled on their own has begun
InitAux ==
    /\ card = NoCard
    /\ guess = NoGuess
    /\ parser = NoFn

\* none but the named one has begun
IdleNotCard == guess = NoGuess /\ parser = NoFn
IdleNotGuess == card = NoCard /\ parser = NoFn
IdleNotFn == card = NoCard /\ guess = NoGuess

Init ==
    /\ InitSession
    /\ InitAux

(***************************************************************************)
(* __do_call: the dispatch on a response, lines 108-197, in source order.  *)
(***************************************************************************)
\* FatalTag with the messages of WRONG_CREDENTIALS and WRONG_CODE exchanged
FatalTagSwapped(code) ==
    IF code = WRONG_CREDENTIALS THEN "wrong_code"
    ELSE IF code = MAX_LOGIN_ATTEMPS THEN "max_attempts"
    ELSE IF code = WRONG_CODE THEN "wrong_credentials"
    ELSE IF code = UNKNOWN_PARAMETER THEN "unknown_parameter"
    ELSE "unknown_code"

\* lines 172-184: the error code is none of NOT_AUTHORIZED (with a login due)
\* and SESSION_ALREADY_OPEN
FatalTag(code) ==
    IF code = WRONG_CREDENTIALS THEN "wrong_credentials"
    ELSE IF code = MAX_LOGIN_ATTEMPS THEN "max_attempts"
    ELSE IF code = WRONG_CODE THEN "wrong_code"
    ELSE IF code = UNKNOWN_PARAMETER THEN "unknown_parameter"
    ELSE "unknown_code"

\* SessionDispatch with the test of `retry` inverted
SessionDispatchInverted(f) == IF f.retry THEN "too_many" ELSE "reset"

\* SessionDispatch without the test of `retry`
SessionDispatchWaits(f) == IF f.retry THEN "reset" ELSE "wait"

SessionDispatchNoBudget(f) == "reset"

\* lines 157-170: SESSION_ALREADY_OPEN
SessionDispatch(f) == IF f.retry THEN "reset" ELSE "too_many"

\* ErrorDispatch without the test of self.cookie
ErrorDispatchAnyCookie(f, r, c) ==
    IF r.code = NoElement THEN "unknown_error"
    ELSE IF r.code = NOT_AUTHORIZED /\ f.retry THEN "login_notauth"
    ELSE IF r.code = SESSION_ALREADY_OPEN THEN SessionDispatch(f)
    ELSE FatalTag(r.code)

\* lines 141-184: the response is the error page
ErrorDispatch(f, r, c) ==
    IF r.code = NoElement THEN "unknown_error"
    ELSE IF r.code = NOT_AUTHORIZED /\ c = NoCookie /\ f.retry
        THEN "login_notauth"
    ELSE IF r.code = SESSION_ALREADY_OPEN THEN SessionDispatch(f)
    ELSE FatalTag(r.code)

\* lines 132-187: a 200 response
PageDispatch(f, r, c) ==
    IF r.path = "default" /\ f.retry THEN "login_default"
    ELSE IF r.path = "error" THEN ErrorDispatch(f, r, c)
    ELSE "return"

\* Dispatch testing the path before the status
DispatchPathFirst(f, r, c) ==
    IF r.kind = "timeout" THEN "timeout"
    ELSE IF r.kind = "transport" THEN "transport"
    ELSE IF PageDispatch(f, r, c) # "return" THEN PageDispatch(f, r, c)
    ELSE IF r.status # 200 THEN "http_error"
    ELSE "return"

\* lines 108-197: timeout, transport failure, status, then the page
Dispatch(f, r, c) ==
    IF r.kind = "timeout" THEN "timeout"
    ELSE IF r.kind = "transport" THEN "transport"
    ELSE IF r.status # 200 THEN "http_error"
    ELSE PageDispatch(f, r, c)

RaiseTags == {"timeout", "transport", "http_error", "unknown_error",
              "too_many", "wrong_credentials", "max_attempts", "wrong_code",
              "unknown_parameter", "unknown_code"}

\* UnknownCodeExc without the scraped code
UnknownCodeExcNoCode(r) == Exc("Somfy", "UnknownErrorCode", "", 0, "")

\* lines 183-184: "Command failed: Unknown errorCode: {code}"
UnknownCodeExc(r) == Exc("Somfy", "UnknownErrorCode", r.code, 0, "")

\* Raised with messages that do not name the path
RaisedNoPath(tag, f, r) ==
    CASE tag = "timeout" -> Exc("Somfy", "Timeout", "", 0, "")
      [] tag = "transport" -> Exc("Somfy", "Transport", "", 0, "")
      [] tag = "http_error" -> Exc("Somfy", "HttpError", "", r.status, "")
      [] tag = "unknown_error" -> Exc("Somfy", "UnknownError", "", 0, "")
      [] tag = "too_many" -> Exc("Somfy", "TooManyLoginRetries", "", 0, "")
      [] tag = "wrong_credentials" -> Exc("Somfy", "WrongCredentials", "", 0, "")
      [] tag = "max_attempts" -> Exc("Somfy", "MaxAttempts", "", 0, "")
      [] tag = "wrong_code" -> Exc("Somfy", "WrongCode", "", 0, "")
      [] tag = "unknown_parameter" -> Exc("Somfy", "UnknownParameter", "", 0, "")
      [] OTHER -> UnknownCodeExc(r)

\* the SomfyException __do_call raises for a dispatch tag
Raised(tag, f, r) ==
    CASE tag = "timeout" -> Exc("Somfy", "Timeout", "", 0, f.page)
      [] tag = "transport" -> Exc("Somfy", "Transport", "", 0, f.page)
      [] tag = "http_error" -> Exc("Somfy", "HttpError", "", r.status, "")
      [] tag = "unknown_error" -> Exc("Somfy", "UnknownError", "", 0, "")
      [] tag = "too_many" -> Exc("Somfy", "TooManyLoginRetries", "", 0, "")
      [] tag = "wrong_credentials" -> Exc("Somfy", "WrongCredentials", "", 0, "")
      [] tag = "max_attempts" -> Exc("Somfy", "MaxAttempts", "", 0, "")
      [] tag = "wrong_code" -> Exc("Somfy", "WrongCode", "", 0, "")
      [] tag = "unknown_parameter" -> Exc("Somfy", "UnknownParameter", "", 0, "")
      [] OTHER -> UnknownCodeExc(r)

\* an exception of a callee crossing __do_call's except clauses (198-203)
WrapInCall(e) ==
    IF e.cls = "Somfy" THEN e ELSE Exc("Somfy", "ReallyWrong", "", 0, "")

\* CookieHeader without lines 100-102
CookieHeaderAsPassed(f, c) == f.hdr

\* the Cookie header of the request __do_call sends (lines 90-102)
CookieHeader(f, c) == IF c # NoCookie /\ f.auth THEN c ELSE f.hdr

\* RetryFrame handing on retry = True
RetryFrameRetrying(f, login) ==
    CallFrame(f.method, f.page, f.hdr, f.data, TRUE, login, f.auth, f.role)

\* the recursive call of lines 135-138, 151-154 and 166-169
RetryFrame(f, login) ==
    CallFrame(f.method, f.page, f.hdr, f.data, FALSE, login, f.auth, f.role)

\* ResetFrame with authenticated left at its default
ResetFrameAuthenticated ==
    CallFrame("post", "error", NoCookie, "reset_form", FALSE, FALSE, TRUE,
              "reset")

\* the reset-session POST of lines 158-162
ResetFrame ==
    CallFrame("post", "error", NoCookie, "reset_form", FALSE, FALSE, FALSE,
              "reset")

\* LoginPostFrame with retry left at its default, True
LoginPostFrameRetrying ==
    CallFrame("post", "login", NoCookie, "login_form", TRUE, FALSE, TRUE,
              "login_post")

\* the login POST of lines 342-344
LoginPostFrame ==
    CallFrame("post", "login", NoCookie, "login_form", FALSE, FALSE, TRUE,
              "login_post")

\* the login-page GET of line 321
ChallengeGetFrame ==
    CallFrame("get", "login", NoCookie, "none", TRUE, FALSE, TRUE, "challenge")

StoredCookieNone(login_response) == NoCookie

\* line 345: login_response.headers.get("SET-COOKIE")
StoredCookie(login_response) == login_response.setCookie

\* the first coroutine a caller-facing operation awaits
OpChild(op) ==
    CASE op = "init" -> LoginFrame(FALSE)
      [] op = "logout" ->
            CallFrame("get", "logout", NoCookie, "none", FALSE, FALSE, TRUE,
                      "main")
      [] op = "command" ->
            CallFrame("post", "pilotage", NoCookie, "command_form", TRUE, TRUE,
                      TRUE, "main")
      [] OTHER ->
            CallFrame("get", "status", NoCookie, "none", TRUE, FALSE, FALSE,
                      "main")

(***************************************************************************)
(* Actions.                                                                *)
(***************************************************************************)
\* a caller invokes init / logout / arm, disarm, ... / get_status
StartOp(t, op) ==
    /\ running = NoTask
    /\ stack[t] = <<>>
    /\ stack' = [stack EXCEPT ![t] = <<OpFrame(op), OpChild(op)>>]
    /\ running' = t
    /\ result' = [result EXCEPT ![t] = [op |-> "", ret |-> NoRet]]
    /\ nLogins' = [nLogins EXCEPT ![t] = 0]
    /\ nMain' = [nMain EXCEPT ![t] = 0]
    /\ nReset' = [nReset EXCEPT ![t] = 0]
    /\ mainHist' = [mainHist EXCEPT ![t] = <<>>]
    /\ clean' = [clean EXCEPT ![t] = TRUE]
    /\ sent' = [sent EXCEPT ![t] = {}]
    /\ UNCHANGED <<cookie, http, ret, lastSetCookie, auxVars>>

\* __do_call lines 90-115: build the headers and send the request
CallSend(t) ==
    /\ At(t, "call", "start")
    /\ LET f == Top(t)
           h == CookieHeader(f, cookie)
       IN /\ stack' = [stack EXCEPT
                ![t] = SetTop(@, [f EXCEPT !.pc = "await", !.hdr = h])]
          /\ http' = [http EXCEPT ![t] =
                [state |-> "sent",
                 req |-> [method |-> f.method, page |-> f.page,
                          data |-> f.data, hdr |-> h, auth |-> f.auth,
                          retry |-> f.retry, role |-> f.role,
                          stored |-> cookie],
                 resp |-> NoResp]]
          /\ nMain' = [nMain EXCEPT
                ![t] = IF f.role = "main" THEN @ + 1 ELSE @]
          /\ nReset' = [nReset EXCEPT
                ![t] = IF f.role = "reset" THEN @ + 1 ELSE @]
          /\ sent' = [sent EXCEPT ![t] = @ \cup {f.role}]
    /\ running' = NoTask
    /\ UNCHANGED <<cookie, ret, result, nLogins, mainHist, clean, lastSetCookie, auxVars>>

\* r is a 200 page that is neither the default nor the error page and, for
\* the login-page GET, shows a challenge of the configured table
Normal(req, r) ==
    /\ r.kind = "resp"
    /\ r.status = 200
    /\ r.path = "other"
    /\ (req.role = "challenge" => r.challenge \in CodesTable)

\* the panel answers, or the request times out or fails in transport
PanelRespond(t, r) ==
    /\ http[t].state = "sent"
    /\ r \in Responses(http[t].req)
    /\ http' = [http EXCEPT ![t] = [@ EXCEPT !.state = "answered", !.resp = r]]
    /\ mainHist' = [mainHist EXCEPT
            ![t] = IF http[t].req.role = "main" THEN Append(@, r) ELSE @]
    /\ clean' = [clean EXCEPT
            ![t] = @ /\ (http[t].req.role = "main" \/ Normal(http[t].req, r))]
    /\ UNCHANGED <<cookie, stack, ret, running, result,
                   nLogins, nMain, nReset, lastSetCookie, sent, auxVars>>

\* the event loop resumes t, whose request was answered
Resumes(t) ==
    /\ running = NoTask
    /\ http[t].state = "answered"
    /\ Len(stack[t]) > 0
    /\ Top(t).fn = "call"
    /\ Top(t).pc = "await"

Tag(t) == Dispatch(Top(t), http[t].resp, cookie)

\* __do_call raises: lines 130, 146, 170-184, 189-197
CallRaise(t) ==
    /\ Resumes(t)
    /\ Tag(t) \in RaiseTags
    /\ stack' = [stack EXCEPT ![t] = Pop(@)]
    /\ ret' = [ret EXCEPT
            ![t] = RetExc(Raised(Tag(t), Top(t), http[t].resp))]
    /\ http' = [http EXCEPT ![t] = Idle]
    /\ running' = t
    /\ UNCHANGED <<cookie, result, nLogins, nMain, nReset, mainHist, clean,
                   lastSetCookie, sent, auxVars>>

\* __do_call line 187: return the response
CallReturn(t) ==
    /\ Resumes(t)
    /\ Tag(t) = "return"
    /\ stack' = [stack EXCEPT ![t] = Pop(@)]
    /\ ret' = [ret EXCEPT ![t] = RetResp(http[t].resp)]
    /\ http' = [http EXCEPT ![t] = Idle]
    /\ running' = t
    /\ UNCHANGED <<cookie, result, nLogins, nMain, nReset, mainHist, clean,
                   lastSetCookie, sent, auxVars>>

\* __do_call lines 133-134 and 149-150: await self.__login()
CallLogin(t) ==
    /\ Resumes(t)
    /\ Tag(t) \in {"login_default", "login_notauth"}
    /\ stack' = [stack EXCEPT
            ![t] = Append(SetTop(@, [Top(t) EXCEPT !.pc = "login",
                                                   !.why = Tag(t)]),
                          LoginFrame(FALSE))]
    /\ http' = [http EXCEPT ![t] = Idle]
    /\ running' = t
    /\ UNCHANGED <<cookie, ret, result, nLogins, nMain, nReset, mainHist, clean,
                   lastSetCookie, sent, auxVars>>

\* __do_call lines 156-162: POST the reset-session payload
CallReset(t) ==
    /\ Resumes(t)
    /\ Tag(t) = "reset"
    /\ stack' = [stack EXCEPT
            ![t] = Append(SetTop(@, [Top(t) EXCEPT !.pc = "reset",
                                                   !.why = Tag(t)]),
                          ResetFrame)]
    /\ http' = [http EXCEPT ![t] = Idle]
    /\ running' = t
    /\ UNCHANGED <<cookie, ret, result, nLogins, nMain, nReset, mainHist, clean,
                   lastSetCookie, sent, auxVars>>

\* an awaited __login or __do_call raised: lines 189-203
CallPropagate(t) ==
    /\ Runs(t)
    /\ Len(stack[t]) > 0
    /\ Top(t).fn = "call"
    /\ Top(t).pc \in {"login", "reset", "relogin", "tail"}
    /\ ret[t].kind = "exc"
    /\ stack' = [stack EXCEPT ![t] = Pop(@)]
    /\ ret' = [ret EXCEPT ![t] = RetExc(WrapInCall(ret[t].exc))]
    /\ UNCHANGED <<cookie, http, running, result, nLogins, nMain, nReset,
                   mainHist, clean, lastSetCookie, sent, auxVars>>

\* __do_call lines 135-138 / 151-154: the login returned, call again
CallAfterLogin(t) ==
    /\ At(t, "call", "login")
    /\ ret[t].kind = "val"
    /\ stack' = [stack EXCEPT
            ![t] = Append(SetTop(@, [Top(t) EXCEPT !.pc = "tail"]),
                          RetryFrame(Top(t), FALSE))]
    /\ ret' = [ret EXCEPT ![t] = NoRet]
    /\ UNCHANGED <<cookie, http, running, result, nLogins, nMain, nReset,
                   mainHist, clean, lastSetCookie, sent, auxVars>>

\* __do_call lines 163-169: the reset POST returned
CallAfterReset(t) ==
    /\ At(t, "call", "reset")
    /\ ret[t].kind = "resp"
    /\ cookie' = NoCookie
    /\ stack' = [stack EXCEPT ![t] =
            IF Top(t).login
            THEN Append(SetTop(@, [Top(t) EXCEPT !.pc = "relogin"]),
                        LoginFrame(FALSE))
            ELSE Append(SetTop(@, [Top(t) EXCEPT !.pc = "tail"]),
                        RetryFrame(Top(t), Top(t).login))]
    /\ ret' = [ret EXCEPT ![t] = NoRet]
    /\ UNCHANGED <<http, running, result, nLogins, nMain, nReset, mainHist, clean,
                   lastSetCookie, sent, auxVars>>

\* __do_call lines 165-169: the login after the reset returned
CallAfterRelogin(t) ==
    /\ At(t, "call", "relogin")
    /\ ret[t].kind = "val"
    /\ stack' = [stack EXCEPT
            ![t] = Append(SetTop(@, [Top(t) EXCEPT !.pc = "tail"]),
                          RetryFrame(Top(t), Top(t).login))]
    /\ ret' = [ret EXCEPT ![t] = NoRet]
    /\ UNCHANGED <<cookie, http, running, result, nLogins, nMain, nReset,
                   mainHist, clean, lastSetCookie, sent, auxVars>>

\* __do_call: `return await self.__do_call(...)` hands on the response
CallTail(t) ==
    /\ At(t, "call", "tail")
    /\ ret[t].kind = "resp"
    /\ stack' = [stack EXCEPT ![t] = Pop(@)]
    /\ UNCHANGED <<cookie, http, ret, running, result, nLogins, nMain,
                   nReset, mainHist, clean, lastSetCookie, sent, auxVars>>

\* __login lines 332-334 and 337-344: clear the cookie, ask for the challenge
\* or, with an explicit code, post the login form
LoginStart(t) ==
    /\ At(t, "login", "start")
    /\ nLogins[t] < MaxLogins
    /\ cookie' = NoCookie
    /\ nLogins' = [nLogins EXCEPT ![t] = @ + 1]
    /\ stack' = [stack EXCEPT ![t] =
            IF Top(t).hasCode
            THEN Append(SetTop(@, [Top(t) EXCEPT !.pc = "post"]),
                        LoginPostFrame)
            ELSE Append(SetTop(@, [Top(t) EXCEPT !.pc = "challenge"]),
                        ChallengeFrame)]
    /\ UNCHANGED <<http, ret, running, result, nMain, nReset, mainHist, clean,
                   lastSetCookie, sent, auxVars>>

\* __login lines 335-344: look the challenge up, post the login form
LoginAfterChallenge(t) ==
    /\ At(t, "login", "challenge")
    /\ ret[t].kind = "val"
    /\ IF ret[t].val \in CodesTable
       THEN /\ stack' = [stack EXCEPT
                    ![t] = Append(SetTop(@, [Top(t) EXCEPT !.pc = "post"]),
                                  LoginPostFrame)]
            /\ ret' = [ret EXCEPT ![t] = NoRet]
       ELSE /\ stack' = [stack EXCEPT ![t] = Pop(@)]
            /\ ret' = [ret EXCEPT
                    ![t] = RetExc(Exc("KeyError", "KeyError", "", 0, ""))]
    /\ UNCHANGED <<cookie, http, running, result, nLogins, nMain, nReset,
                   mainHist, clean, lastSetCookie, sent, auxVars>>

\* __login line 345: store the Set-Cookie header of the login response
LoginAfterPost(t) ==
    /\ At(t, "login", "post")
    /\ ret[t].kind = "resp"
    /\ cookie' = StoredCookie(ret[t].resp)
    /\ lastSetCookie' = ret[t].resp.setCookie
    /\ sent' = [sent EXCEPT ![t] = @ \cup {"logged_in"}]
    /\ stack' = [stack EXCEPT ![t] = Pop(@)]
    /\ ret' = [ret EXCEPT ![t] = RetVal("")]
    /\ UNCHANGED <<http, running, result, nLogins, nMain, nReset, mainHist,
                   clean, auxVars>>

\* __login: get_challenge or the login POST raised; __login catches nothing
LoginPropagate(t) ==
    /\ Runs(t)
    /\ Len(stack[t]) > 0
    /\ Top(t).fn = "login"
    /\ Top(t).pc \in {"challenge", "post"}
    /\ ret[t].kind = "exc"
    /\ stack' = [stack EXCEPT ![t] = Pop(@)]
    /\ UNCHANGED <<cookie, http, ret, running, result, nLogins, nMain,
                   nReset, mainHist, clean, lastSetCookie, sent, auxVars>>

\* get_challenge line 321: GET the login page
ChallengeStart(t) ==
    /\ At(t, "challenge", "start")
    /\ stack' = [stack EXCEPT
            ![t] = Append(SetTop(@, [Top(t) EXCEPT !.pc = "call"]),
                          ChallengeGetFrame)]
    /\ UNCHANGED <<cookie, http, ret, running, result, nLogins, nMain,
                   nReset, mainHist, clean, lastSetCookie, sent, auxVars>>

\* get_challenge lines 322-328: the challenge text, or "Challenge not found";
\* an exception of the GET passes through
ChallengeReturn(t) ==
    /\ At(t, "challenge", "call")
    /\ ret[t].kind \in {"resp", "exc"}
    /\ stack' = [stack EXCEPT ![t] = Pop(@)]
    /\ ret' = [ret EXCEPT ![t] =
            IF ret[t].kind = "exc" THEN ret[t]
            ELSE IF ret[t].resp.challenge # NoElement
                THEN RetVal(ret[t].resp.challenge)
            ELSE RetExc(Exc("Somfy", "ChallengeNotFound", "", 0, ""))]
    /\ UNCHANGED <<cookie, http, running, result, nLogins, nMain, nReset,
                   mainHist, clean, lastSetCookie, sent, auxVars>>

\* init / logout / arm, ... / get_status end: the awaited coroutine returned
\* or raised; logout (line 350) then clears the cookie
OpReturn(t) ==
    /\ At(t, "op", "await")
    /\ ret[t].kind # "none"
    /\ cookie' = IF Top(t).op = "logout" /\ ret[t].kind = "resp"
                 THEN NoCookie ELSE cookie
    /\ stack' = [stack EXCEPT ![t] = <<>>]
    /\ result' = [result EXCEPT ![t] = [op |-> Top(t).op, ret |-> ret[t]]]
    /\ ret' = [ret EXCEPT ![t] = NoRet]
    /\ running' = NoTask
    /\ UNCHANGED <<http, nLogins, nMain, nReset, mainHist, clean, lastSetCookie, sent, auxVars>>

\* the steps of the coroutines under an operation
Inner(t) ==
    \/ CallSend(t)
    \/ \E r \in Responses(http[t].req) : PanelRespond(t, r)
    \/ CallRaise(t)
    \/ CallReturn(t)
    \/ CallLogin(t)
    \/ CallReset(t)
    \/ CallPropagate(t)
    \/ CallAfterLogin(t)
    \/ CallAfterReset(t)
    \/ CallAfterRelogin(t)
    \/ CallTail(t)
    \/ LoginStart(t)
    \/ LoginAfterChallenge(t)
    \/ LoginAfterPost(t)
    \/ LoginPropagate(t)
    \/ ChallengeStart(t)
    \/ ChallengeReturn(t)

Step(t) ==
    \/ \E op \in Ops : StartOp(t, op)
    \/ Inner(t)
    \/ OpReturn(t)

\* a sequentially used session: one caller at a time
Next == \E t \in SeqTasks : Step(t)

Spec == Init /\ [][Next]_vars

(***************************************************************************)
(* get_challenge_card (lines 397-416): login with the caller's code, fetch *)
(* the card page, log out.  The operation's frame has its own positions.   *)
(***************************************************************************)
CardFrame == [Frame("op", "card_login") EXCEPT !.op = "get_challenge_card"]

\* line 400: __do_call("get", Page.CHALLENGE_CARD, login=False)
CardScrapeFrame ==
    CallFrame("get", "challenge_card", NoCookie, "none",
              TRUE, FALSE, TRUE, "main")

\* logout(), line 349: __do_call("get", Page.LOGOUT, retry=False, login=False)
CardLogoutFrame ==
    CallFrame("get", "logout", NoCookie, "none",
              FALSE, FALSE, TRUE, "logout")

\* a caller invokes get_challenge_card(username, password, code)
StartCard(t, hasCode) ==
    /\ running = NoTask
    /\ stack[t] = <<>>
    /\ stack' = [stack EXCEPT ![t] = <<CardFrame, LoginFrame(hasCode)>>]
    /\ running' = t
    /\ result' = [result EXCEPT ![t] = [op |-> "", ret |-> NoRet]]
    /\ nLogins' = [nLogins EXCEPT ![t] = 0]
    /\ nMain' = [nMain EXCEPT ![t] = 0]
    /\ nReset' = [nReset EXCEPT ![t] = 0]
    /\ mainHist' = [mainHist EXCEPT ![t] = <<>>]
    /\ clean' = [clean EXCEPT ![t] = TRUE]
    /\ sent' = [sent EXCEPT ![t] = {}]
    /\ UNCHANGED <<cookie, http, ret, lastSetCookie, auxVars>>

\* line 399 returned: line 400 fetches the card page
CardAfterLogin(t) ==
    /\ At(t, "op", "card_login")
    /\ ret[t].kind = "val"
    /\ stack' = [stack EXCEPT ![t] =
            Append(SetTop(@, [Top(t) EXCEPT !.pc = "card_scrape"]),
                   CardScrapeFrame)]
    /\ ret' = [ret EXCEPT ![t] = NoRet]
    /\ UNCHANGED <<cookie, http, running, result, nLogins, nMain, nReset,
                   mainHist, clean, lastSetCookie, sent, auxVars>>

\* lines 401-415: the page is parsed, then logout() is awaited
CardAfterScrape(t) ==
    /\ At(t, "op", "card_scrape")
    /\ ret[t].kind = "resp"
    /\ stack' = [stack EXCEPT ![t] =
            Append(SetTop(@, [Top(t) EXCEPT !.pc = "card_logout"]),
                   CardLogoutFrame)]
    /\ ret' = [ret EXCEPT ![t] = NoRet]
    /\ UNCHANGED <<cookie, http, running, result, nLogins, nMain, nReset,
                   mainHist, clean, lastSetCookie, sent, auxVars>>

\* line 350 then 416: the logout request returned, the cookie is cleared and
\* the mapping is returned
CardAfterLogout(t) ==
    /\ At(t, "op", "card_logout")
    /\ ret[t].kind = "resp"
    /\ cookie' = NoCookie
    /\ stack' = [stack EXCEPT ![t] = <<>>]
    /\ result' = [result EXCEPT
            ![t] = [op |-> Top(t).op, ret |-> RetVal("challenges")]]
    /\ ret' = [ret EXCEPT ![t] = NoRet]
    /\ running' = NoTask
    /\ UNCHANGED <<http, nLogins, nMain, nReset, mainHist, clean,
                   lastSetCookie, sent, auxVars>>

\* lines 399, 400, 415 sit in no try block: an exception of any of the three
\* awaited coroutines leaves get_challenge_card at once
CardRaise(t) ==
    /\ Len(stack[t]) = 1
    /\ Top(t).fn = "op"
    /\ Top(t).pc \in {"card_login", "card_scrape", "card_logout"}
    /\ running = t
    /\ ret[t].kind = "exc"
    /\ stack' = [stack EXCEPT ![t] = <<>>]
    /\ result' = [result EXCEPT ![t] = [op |-> Top(t).op, ret |-> ret[t]]]
    /\ ret' = [ret EXCEPT ![t] = NoRet]
    /\ running' = NoTask
    /\ UNCHANGED <<cookie, http, nLogins, nMain, nReset, mainHist, clean,
                   lastSetCookie, sent, auxVars>>

\* every operation of the session, get_challenge_card included
CardStep(t) ==
    \/ \E hasCode \in BOOLEAN : StartCard(t, hasCode)
    \/ Step(t)
    \/ CardAfterLogin(t)
    \/ CardAfterScrape(t)
    \/ CardAfterLogout(t)
    \/ CardRaise(t)

NextCard == \E t \in SeqTasks : CardStep(t)

SpecCard == Init /\ [][NextCard]_vars

(***************************************************************************)
(* The loop of get_challenge_card on its own: any card page of up to       *)
(* MaxCells cells.                                                         *)
(***************************************************************************)
InitGrid ==
    /\ InitSession
    /\ \E n \in 0..MaxCells, seed \in 0..MaxSeed :
            card = [NoCard EXCEPT !.pc = "loop", !.cells = Cells(n, seed)]
    /\ IdleNotCard

\* lines 409-414: one iteration
CardLoop ==
    /\ card.pc = "loop"
    /\ card.global_index < Len(card.cells)
    /\ LET col == card.global_index % 6
           row == NextRow(col, card.row_index)
           elmt == card.cells[card.global_index + 1]
       IN card' = [card EXCEPT
                !.col_index = col,
                !.row_index = row,
                !.challenges = DictSet(@, Key(col, row), elmt),
                !.global_index = @ + 1]
    /\ UNCHANGED <<sessVars, notCard>>

\* line 409: the cells are exhausted
CardLoopEnd ==
    /\ card.pc = "loop"
    /\ card.global_index = Len(card.cells)
    /\ card' = [card EXCEPT !.pc = "done"]
    /\ UNCHANGED <<sessVars, notCard>>

NextGrid == CardLoop \/ CardLoopEnd

SpecGrid == InitGrid /\ [][NextGrid]_vars

(***************************************************************************)
(* Variant detection on its own.  Which variants declare a version page    *)
(* is the adapters' knowledge: every combination is explored.              *)
(***************************************************************************)
InitGuess ==
    /\ InitSession
    /\ IdleNotGuess
    /\ \E h \in [ApiTypes -> BOOLEAN] :
            guess = [NoGuess EXCEPT !.pc = "iter", !.hasVersion = h]

\* the probe of a page of the candidate under test, with its answer
Probed(page, r) == [api |-> guess.api, page |-> page, resp |-> r]

\* lines 248-255 (and 260-261 without a version page): the next candidate's
\* adapter is loaded and its first probe is sent
GuessIterate ==
    /\ guess.pc = "iter"
    /\ guess.idx \in DOMAIN ApiOrder
    /\ LET a == ApiOrder[guess.idx]
       IN guess' = [guess EXCEPT
                !.api = a,
                !.pc = IF guess.hasVersion[a] THEN "version" ELSE "login"]
    /\ UNCHANGED <<sessVars, notGuess>>

\* line 255 returns or raises, line 258 decides
GuessAfterVersion(r) ==
    /\ guess.pc = "version"
    /\ LET version_body == do_guess_get("version", r)
           g == [guess EXCEPT !.probes = Append(@, Probed("version", r))]
       IN guess' =
            IF version_body.kind = "exc"
            THEN [g EXCEPT !.pc = "done", !.result = RetExc(version_body.e)]
            ELSE IF VersionPassed(TRUE, version_body)
            THEN [g EXCEPT !.pc = "login"]
            ELSE [g EXCEPT !.pc = "iter", !.idx = NextCandidate(@)]
    /\ UNCHANGED <<sessVars, notGuess>>

\* lines 261-277: the login page is fetched and its challenge is tested
GuessAfterLogin(r) ==
    /\ guess.pc = "login"
    /\ LET login_body == do_guess_get("login", r)
           g == [guess EXCEPT !.probes = Append(@, Probed("login", r))]
       IN guess' =
            IF login_body.kind = "exc"
            THEN [g EXCEPT !.pc = "done", !.result = RetExc(login_body.e)]
            ELSE IF login_body.kind = "body" /\ ReMatch(login_body.text)
            THEN [g EXCEPT !.pc = "done", !.api_type = guess.api,
                           !.result = RetVal(guess.api)]
            ELSE [g EXCEPT !.pc = "iter", !.idx = NextCandidate(@)]
    /\ UNCHANGED <<sessVars, notGuess>>

\* line 278: no candidate is left
GuessFail ==
    /\ guess.pc = "iter"
    /\ guess.idx \notin DOMAIN ApiOrder
    /\ guess' = [guess EXCEPT !.pc = "done", !.result = RetExc(DetectionFailed)]
    /\ UNCHANGED <<sessVars, notGuess>>

NextGuess ==
    \/ GuessIterate
    \/ \E r \in ProbeResponses("version") : GuessAfterVersion(r)
    \/ \E r \in ProbeResponses("login") : GuessAfterLogin(r)
    \/ GuessFail

SpecGuess == InitGuess /\ [][NextGuess]_vars

(***************************************************************************)
(* Text.  A str is the sequence of its code points, a bytes object the     *)
(* sequence of its bytes.                                                  *)
(***************************************************************************)
MaxText == 4        \* code points of a text handed to _fix_mojibake
MaxItems == 3       \* items of a JS array literal of the elements page

\* bytes.decode("utf-8") (line 27): the text, or ok = FALSE for
\* UnicodeDecodeError.  Overlong forms, surrogates and code points above
\* U+10FFFF are errors.
RECURSIVE Utf8Decode(_)
Utf8Decode(b) ==
    LET cont(i) == i <= Len(b) /\ b[i] \in 128..191
        low(i) == b[i] - 128
        h == Head(b)
        n == IF h < 128 THEN 1
             ELSE IF h \in 194..223 /\ cont(2) THEN 2
             ELSE IF /\ h \in 224..239 /\ cont(2) /\ cont(3)
                     /\ (h = 224 => b[2] >= 160)
                     /\ (h = 237 => b[2] <= 159) THEN 3
             ELSE IF /\ h \in 240..244 /\ cont(2) /\ cont(3) /\ cont(4)
                     /\ (h = 240 => b[2] >= 144)
                     /\ (h = 244 => b[2] <= 143) THEN 4
             ELSE 0
        cp == CASE n = 1 -> h
                [] n = 2 -> (h - 192) * 64 + low(2)
                [] n = 3 -> (h - 224) * 4096 + low(2) * 64 + low(3)
                [] n = 4 -> (h - 240) * 262144 + low(2) * 4096
                                + low(3) * 64 + low(4)
                [] OTHER -> 0
        rest == Utf8Decode(SubSeq(b, n + 1, Len(b)))
    IN  IF b = <<>> THEN [ok |-> TRUE, text |-> <<>>]
        ELSE IF n = 0 \/ ~rest.ok THEN [ok |-> FALSE, text |-> <<>>]
        ELSE [ok |-> TRUE, text |-> <<cp>> \o rest.text]

\* lines 23-29: encode("latin-1") raises on a code point above 255,
\* decode("utf-8") on bytes that are no UTF-8; either way the text is
\* handed back as it is
fix_mojibake(text) ==
    IF \E i \in 1..Len(text) : text[i] > 255 THEN text
    ELSE LET d == Utf8Decode(text) IN IF d.ok THEN d.text ELSE text

(***************************************************************************)
(* The elements page (lines 499-541).  The page is what the pattern of     *)
(* line 502 finds in it: for every array name, whether a literal           *)
(* `var name = [...];` is there, and the text between its brackets.        *)
(***************************************************************************)
\* the arrays in the order of lines 509-518
ArrayNames ==
    <<"item_label", "elt_name", "elt_code", "elt_pile", "elt_onde",
      "elt_porte", "elt_zone", "elt_as", "elt_maison", "item_pause">>

\* lines 500-508: no literal gives no items; the text between the brackets
\* is split at every comma (of "" the one part ""), each part is stripped of
\* white space, then of double quotes, then of single quotes, and repaired
extract_array(html, name) ==
    LET RECURSIVE split(_, _)
        split(s, cur) ==
            IF s = <<>> THEN <<cur>>
            ELSE IF Head(s) = 44 THEN <<cur>> \o split(Tail(s), <<>>)
            ELSE split(Tail(s), Append(cur, Head(s)))
        RECURSIVE strip(_, _)
        strip(s, cs) ==
            IF s # <<>> /\ Head(s) \in cs THEN strip(Tail(s), cs)
            ELSE IF s # <<>> /\ s[Len(s)] \in cs
                 THEN strip(SubSeq(s, 1, Len(s) - 1), cs)
            ELSE s
        parts == split(html[name].raw, <<>>)
    IN  IF ~html[name].present THEN <<>>
        ELSE [i \in 1..Len(parts) |->
                fix_mojibake(
                    strip(strip(strip(parts[i], {9, 10, 11, 12, 13, 32}),
                                {34}), {39}))]

\* lines 509-541: the elements of a page
elements(html) ==
    LET arr == [k \in 1..Len(ArrayNames) |-> extract_array(html, ArrayNames[k])]
        min(a, b) == IF a <= b THEN a ELSE b
        n == min(Len(arr[1]), min(Len(arr[2]), Len(arr[3])))
        opt(k, i, default) == IF i <= Len(arr[k]) THEN arr[k][i] ELSE default
        \* "itemhidden", line 524
        itemhidden == <<105, 116, 101, 109, 104, 105, 100, 100, 101, 110>>
    IN  [i \in 1..n |->
            [label |-> fix_mojibake(arr[1][i]),
             name |-> fix_mojibake(arr[2][i]),
             code |-> arr[3][i],
             battery |-> opt(4, i, <<>>),
             comm |-> opt(5, i, itemhidden),
             door |-> opt(6, i, <<>>),
             zone |-> IF i <= Len(arr[7]) THEN fix_mojibake(arr[7][i]) ELSE <<>>,
             tamper |-> opt(8, i, <<>>),
             house |-> opt(9, i, <<>>),
             pause |-> opt(10, i, <<>>)]]

\* the pages: each of the arrays of label, name and code is absent or has
\* 0..MaxItems items; of the optional arrays elt_pile and elt_onde each is
\* absent, or has one item or MaxItems, and the others are as elt_pile.
\* Item j of the k-th array is letter k of the alphabet and the digit j, in
\* double quotes; a comma and a space stand between two items.
ElementPages ==
    LET RECURSIVE literal(_, _)
        literal(k, n) ==
            IF n = 0 THEN <<>>
            ELSE (IF n = 1 THEN <<>> ELSE literal(k, n - 1) \o <<44, 32>>)
                 \o <<34, 64 + k, 48 + n, 34>>
        Shapes == {-1} \cup (0..MaxItems)
        OptShapes == {-1, 1, MaxItems}
        arrayOf(k, n) == [present |-> n >= 0,
                          raw |-> IF n >= 0 THEN literal(k, n) ELSE <<>>]
        idx(name) == CHOOSE k \in 1..Len(ArrayNames) : ArrayNames[k] = name
    IN  {[name \in {ArrayNames[k] : k \in 1..Len(ArrayNames)} |->
            arrayOf(idx(name),
                    CASE idx(name) <= 3 -> s[idx(name)]
                      [] idx(name) = 5 -> o[2]
                      [] OTHER -> o[1])] :
         s \in [1..3 -> Shapes], o \in [1..2 -> OptShapes]}

(***************************************************************************)
(* The status page (lines 358-395): the children of the root element, each *)
(* a tag and its text, in document order.                                  *)
(***************************************************************************)
MaxChildren == 2    \* children of the root element of the status page

\* child.text of an element that has no text
None == <<-1>>

\* lines 32-46: the class attributes, written as texts: "off", "ok",
\* "gsm connect au rseau", "4", "orange", "disabled"
Status ==
    [zoneA |-> <<111, 102, 102>>,
     zoneB |-> <<111, 102, 102>>,
     zoneC |-> <<111, 102, 102>>,
     battery |-> <<111, 107>>,
     radio |-> <<111, 107>>,
     door |-> <<111, 107>>,
     alarm |-> <<111, 107>>,
     box |-> <<111, 107>>,
     gsm |-> <<103, 115, 109, 32, 99, 111, 110, 110, 101, 99, 116, 32, 97, 117, 32, 114, 115, 101, 97, 117>>,
     recgsm |-> <<52>>,
     opegsm |-> <<111, 114, 97, 110, 103, 101>>,
     camera |-> <<100, 105, 115, 97, 98, 108, 101, 100>>]

\* the field a tag is assigned to with its neighbour's field
StatusFieldShifted ==
    [defaut0 |-> "radio", defaut1 |-> "battery", defaut2 |-> "door",
     defaut3 |-> "alarm", defaut4 |-> "box", zone0 |-> "zoneA",
     zone1 |-> "zoneB", zone2 |-> "zoneC", gsm |-> "gsm",
     recgsm |-> "recgsm", opegsm |-> "opegsm", camera |-> "camera"]

\* lines 362-386: the case of each tag and the field it assigns
StatusField ==
    [defaut0 |-> "battery", defaut1 |-> "radio", defaut2 |-> "door",
     defaut3 |-> "alarm", defaut4 |-> "box", zone0 |-> "zoneA",
     zone1 |-> "zoneB", zone2 |-> "zoneC", gsm |-> "gsm",
     recgsm |-> "recgsm", opegsm |-> "opegsm", camera |-> "camera"]

\* lines 389-395: None stays None; of a text the characters of
\* string.printable (digits, letters, punctuation, space, \t \n \r \x0b
\* \x0c) are kept in order, and the capitals among them lower-cased
RECURSIVE filter_ascii(_)
filter_ascii(value) ==
    IF value = None \/ value = <<>> THEN value
    ELSE LET c == Head(value)
             rest == filter_ascii(Tail(value))
         IN  IF c \in (32..126) \cup (9..13)
             THEN <<IF c \in 65..90 THEN c + 32 ELSE c>> \o rest
             ELSE rest

\* lines 359-387: a Status of the defaults, then one assignment per child
\* with a tag of StatusField, in document order
RECURSIVE get_status(_)
get_status(children) ==
    IF children = <<>> THEN Status
    ELSE LET n == Len(children)
             child == children[n]
             status == get_status(SubSeq(children, 1, n - 1))
         IN  IF child.tag \in DOMAIN StatusField
             THEN [status EXCEPT
                        ![StatusField[child.tag]] = filter_ascii(child.text)]
             ELSE status

(***************************************************************************)
(* The state of the alarm entity (alarm_control_panel.py, lines 120-150).  *)
(***************************************************************************)
\* const.py, lines 41-46, with C on a bit of A and B
ZoneOverlapping == [NONE |-> 0, A |-> 1, B |-> 2, C |-> 3, ABC |-> 7]

\* const.py, lines 41-46
Zone == [NONE |-> 0, A |-> 1, B |-> 2, C |-> 4, ABC |-> 7]

\* __getCurrentState with the home mask compared before the night mask
getCurrentStateHomeFirst(data, night_zones, home_zones) ==
    LET zone(key, z) == IF data[key] = <<111, 110>> THEN z ELSE 0
        active_zones == Zone.NONE + zone("zoneA", Zone.A)
                            + zone("zoneB", Zone.B) + zone("zoneC", Zone.C)
    IN  [active_zones |-> active_zones,
         state |-> IF active_zones = Zone.NONE THEN "DISARMED"
                   ELSE IF active_zones = Zone.ABC THEN "ARMED_AWAY"
                   ELSE IF active_zones = home_zones THEN "ARMED_HOME"
                   ELSE IF active_zones = night_zones THEN "ARMED_NIGHT"
                   ELSE "UNKNOWN"]

\* lines 120-150: the values of the zones that are "on" (o is 111, n is
\* 110) are added up, and
\* the sum is compared with NONE, ABC, the night mask and the home mask, in
\* this order
getCurrentState(data, night_zones, home_zones) ==
    LET zone(key, z) == IF data[key] = <<111, 110>> THEN z ELSE 0
        active_zones == Zone.NONE + zone("zoneA", Zone.A)
                            + zone("zoneB", Zone.B) + zone("zoneC", Zone.C)
    IN  [active_zones |-> active_zones,
         state |-> IF active_zones = Zone.NONE THEN "DISARMED"
                   ELSE IF active_zones = Zone.ABC THEN "ARMED_AWAY"
                   ELSE IF active_zones = night_zones THEN "ARMED_NIGHT"
                   ELSE IF active_zones = home_zones THEN "ARMED_HOME"
                   ELSE "UNKNOWN"]

(***************************************************************************)
(* The binary sensors of the elements (binary_sensor.py).  A text is the   *)
(* sequence of its code points.                                            *)
(***************************************************************************)
\* str.lower() on the letters A-Z and on the capitals of Latin-1
lower(text) ==
    [i \in 1..Len(text) |->
        IF text[i] \in 65..90 \/ (text[i] \in 192..222 /\ text[i] # 215)
        THEN text[i] + 32 ELSE text[i]]

\* str.strip(): white space is removed at both ends
strip(text) ==
    LET kept == {i \in 1..Len(text) : text[i] \notin {9, 10, 11, 12, 13, 32}}
        first == CHOOSE i \in kept : \A j \in kept : i <= j
        last == CHOOSE i \in kept : \A j \in kept : j <= i
    IN  IF kept = {} THEN <<>> ELSE SubSeq(text, first, last)

\* lines 20-40, in the order of the dict
ELEMENTS_MAPPING ==
    <<
      \* "badge"
      [key |-> <<98, 97, 100, 103, 101>>,
       fields |-> <<"house", "pause">>],
      \* "dm"
      [key |-> <<100, 109>>,
       fields |-> <<"battery", "comm", "house", "tamper", "pause">>],
      \* "dm image"
      [key |-> <<100, 109, 32, 105, 109, 97, 103, 101>>,
       fields |-> <<"battery", "comm", "house", "tamper", "pause">>],
      \* "cl lcd"
      [key |-> <<99, 108, 32, 108, 99, 100>>,
       fields |-> <<"battery", "comm", "house", "tamper", "pause">>],
      \* "clavier"
      [key |-> <<99, 108, 97, 118, 105, 101, 114>>,
       fields |-> <<"battery", "comm", "house", "tamper", "pause">>],
      \* "do"
      [key |-> <<100, 111>>,
       fields |-> <<"battery", "comm", "house", "tamper", "door", "pause">>],
      \* "do vitre"
      [key |-> <<100, 111, 32, 118, 105, 116, 114, 101>>,
       fields |-> <<"battery", "comm", "house", "tamper", "door", "pause">>],
      \* "do gar"
      [key |-> <<100, 111, 32, 103, 97, 114>>,
       fields |-> <<"battery", "comm", "house", "tamper", "door", "pause">>],
      \* "d. fume acutee"
      [key |-> <<100, 46, 32, 102, 117, 109, 233, 101>>,
       fields |-> <<"battery", "comm", "house", "pause">>],
      \* "d. fum"
      [key |-> <<100, 46, 32, 102, 117, 109>>,
       fields |-> <<"battery", "comm", "house", "pause">>],
      \* "tc multi"
      [key |-> <<116, 99, 32, 109, 117, 108, 116, 105>>,
       fields |-> <<"house", "pause">>],
      \* "tc 4"
      [key |-> <<116, 99, 32, 52>>,
       fields |-> <<"house", "pause">>],
      \* "sir int"
      [key |-> <<115, 105, 114, 32, 105, 110, 116>>,
       fields |-> <<"battery", "comm", "house", "tamper", "pause">>],
      \* "sir ext"
      [key |-> <<115, 105, 114, 32, 101, 120, 116>>,
       fields |-> <<"battery", "comm", "house", "tamper", "pause">>],
      \* "tr te acutel"
      [key |-> <<116, 114, 32, 116, 233, 108>>,
       fields |-> <<"battery", "comm", "house", "tamper", "pause">>],
      \* "tr t"
      [key |-> <<116, 114, 32, 116>>,
       fields |-> <<"battery", "comm", "house", "tamper", "pause">>]
    >>

\* the tokens of the flags that lines 268-291 and 335-346 compare with
Token ==
    [itembattok |-> <<105, 116, 101, 109, 98, 97, 116, 116, 111, 107>>,
     itemcomok |-> <<105, 116, 101, 109, 99, 111, 109, 111, 107>>,
     itemboxok |-> <<105, 116, 101, 109, 98, 111, 120, 111, 107>>,
     itemhouseok |-> <<105, 116, 101, 109, 104, 111, 117, 115, 101, 111, 107>>,
     itemdoorok |-> <<105, 116, 101, 109, 100, 111, 111, 114, 111, 107>>,
     running |-> <<114, 117, 110, 110, 105, 110, 103>>]

\* lines 52-58: the fields of the longest key that the stripped, lower-cased
\* label starts with; sorted() keeps the dict's order among keys of one
\* length.  None is <<>> here: line 323 reads the result with "or []".
fields_for_label(label) ==
    LET lab == lower(strip(label))
        startswith(key) ==
            /\ Len(key) <= Len(lab)
            /\ SubSeq(lab, 1, Len(key)) = key
        matches == {k \in DOMAIN ELEMENTS_MAPPING :
                        startswith(ELEMENTS_MAPPING[k].key)}
        first == CHOOSE k \in matches : \A j \in matches :
                    \/ Len(ELEMENTS_MAPPING[k].key) > Len(ELEMENTS_MAPPING[j].key)
                    \/ /\ Len(ELEMENTS_MAPPING[k].key) = Len(ELEMENTS_MAPPING[j].key)
                       /\ k <= j
    IN  IF matches = {} THEN <<>> ELSE ELEMENTS_MAPPING[first].fields

\* lines 69-93: the first of the keys of the field whose value is neither
\* None nor blank, stripped and lower-cased; an element of get_elements has
\* the first key of each field and none of the aliases
get_raw_flag(field, el) ==
    LET key_map == [battery |-> <<"battery", "elt_pile", "pile">>,
                    comm |-> <<"comm", "elt_onde", "onde">>,
                    house |-> <<"house", "elt_maison", "maison">>,
                    tamper |-> <<"tamper", "elt_as", "as">>,
                    door |-> <<"door", "elt_porte", "porte">>,
                    pause |-> <<"pause", "item_pause">>]
        RECURSIVE first(_)
        first(keys) ==
            IF keys = <<>> THEN <<>>
            ELSE IF Head(keys) \notin DOMAIN el THEN first(Tail(keys))
            ELSE LET vs == lower(strip(el[Head(keys)]))
                 IN  IF vs # <<>> THEN vs ELSE first(Tail(keys))
    IN  IF field \notin DOMAIN key_map THEN <<>> ELSE first(key_map[field])

\* lines 251-257 and 374-380: the element of the coordinator's list that has
\* the code of the sensor, <<>> for None
find_element(elts, code) ==
    LET found == {i \in DOMAIN elts : elts[i].code = code}
    IN  IF found = {} THEN <<>>
        ELSE elts[CHOOSE i \in found : \A j \in found : i <= j]

\* SomfyElementBinarySensor.is_on, lines 260-293, of the sensor of a field
\* of the element with this code
SomfyElementBinarySensor_is_on(field, elts, code) ==
    LET el == find_element(elts, code)
        raw == get_raw_flag(field, el)
    IN  IF el = <<>> THEN FALSE
        ELSE CASE field = "battery" -> raw # Token.itembattok
               [] field = "comm" -> raw \in {Token.itemcomok, Token.itemboxok}
               [] field = "house" -> raw # Token.itemhouseok
               [] field = "tamper" -> raw # Token.itemboxok
               [] field = "door" -> raw # Token.itemdoorok
               [] field = "pause" -> raw = Token.running
               [] OTHER -> FALSE

\* _normalize_flag with "running" as the token of a problem
normalize_flag_running_is_problem(field, raw) ==
    IF raw = <<>> THEN "None"
    ELSE LET ok == CASE field = "battery" -> lower(raw) = Token.itembattok
                     [] field = "comm" ->
                            lower(raw) \in {Token.itemcomok, Token.itemboxok}
                     [] field = "house" -> lower(raw) = Token.itemhouseok
                     [] field = "tamper" -> lower(raw) = Token.itemboxok
                     [] field = "door" -> lower(raw) = Token.itemdoorok
                     [] OTHER -> lower(raw) # Token.running
         IN  IF field \notin {"battery", "comm", "house", "tamper", "door",
                              "pause"}
             THEN "None"
             ELSE IF ok THEN "True" ELSE "False"

\* _normalize_flag, lines 329-347: None for an empty flag, True for the
\* token of the field that means OK, False for any other text
normalize_flag(field, raw) ==
    IF raw = <<>> THEN "None"
    ELSE LET ok == CASE field = "battery" -> lower(raw) = Token.itembattok
                     [] field = "comm" ->
                            lower(raw) \in {Token.itemcomok, Token.itemboxok}
                     [] field = "house" -> lower(raw) = Token.itemhouseok
                     [] field = "tamper" -> lower(raw) = Token.itemboxok
                     [] field = "door" -> lower(raw) = Token.itemdoorok
                     [] OTHER -> lower(raw) = Token.running
         IN  IF field \notin {"battery", "comm", "house", "tamper", "door",
                              "pause"}
             THEN "None"
             ELSE IF ok THEN "True" ELSE "False"

\* lines 320-322: the fields of the aggregate sensor of an element, which
\* has the key "pause" when get_elements made it
aggregate_fields(element) ==
    LET fields == fields_for_label(strip(element.label))
    IN  IF /\ "pause" \in DOMAIN element
           /\ \A i \in DOMAIN fields : fields[i] # "pause"
        THEN Append(fields, "pause") ELSE fields

\* SomfyElementAggregateBinarySensor.is_on, lines 422-430, with _value_for
\* (lines 351-352): the sensor was built from element, and reads the element
\* of that code in the coordinator's list, or element itself without one
SomfyElementAggregateBinarySensor_is_on(element, elts) ==
    LET found == find_element(elts, element.code)
        el == IF found # <<>> THEN found ELSE element
        fields == aggregate_fields(element)
    IN  \E i \in DOMAIN fields :
            normalize_flag(fields[i], el[fields[i]]) = "False"

(***************************************************************************)
(* The parsers and the state function on their own: each is handed one of  *)
(* its inputs and applied to it.                                           *)
(***************************************************************************)
Called(name, arg) == [name |-> name, pc |-> "call", arg |-> arg, val |-> <<>>]

\* The sensors are built from the one element of a page.  The labels of
\* the pages without the optional arrays are the keys of ELEMENTS_MAPPING,
\* "DM", "Do Vitre 1" and "xx", which is no type of the mapping.  The pages
\* with the optional arrays have a label of each list of fields, and in each
\* array the empty text, a token that means OK, or another text.
SensorLabels ==
    {ELEMENTS_MAPPING[k].key : k \in DOMAIN ELEMENTS_MAPPING}
        \cup {<<68, 77>>, <<68, 111, 32, 86, 105, 116, 114, 101, 32, 49>>, <<120, 120>>}

FlaggedLabels ==
    {ELEMENTS_MAPPING[1].key, ELEMENTS_MAPPING[2].key, ELEMENTS_MAPPING[6].key,
     ELEMENTS_MAPPING[9].key, <<68, 77>>, <<120, 120>>}

\* "itemhidden", "paused" and "Running" are the other texts
SensorFlags ==
    LET itemhidden == <<105, 116, 101, 109, 104, 105, 100, 100, 101, 110>>
    IN  [elt_pile : {<<>>, Token.itembattok, itemhidden},
         elt_onde : {<<>>, Token.itemcomok, Token.itemboxok, itemhidden},
         elt_porte : {<<>>, Token.itemdoorok, itemhidden},
         elt_as : {<<>>, Token.itemboxok, itemhidden},
         elt_maison : {<<>>, Token.itemhouseok, itemhidden},
         item_pause : {<<>>, Token.running, <<112, 97, 117, 115, 101, 100>>, <<82, 117, 110, 110, 105, 110, 103>>}]

\* the page of one element: label, name "N" and code "7", in double quotes;
\* flags is <<>> for a page without the optional arrays and without elt_zone
SensorPage(label, flags) ==
    LET quoted(text) == <<34>> \o text \o <<34>>
    IN  [name \in {ArrayNames[k] : k \in 1..Len(ArrayNames)} |->
            CASE name = "item_label" -> [present |-> TRUE, raw |-> quoted(label)]
              [] name = "elt_name" -> [present |-> TRUE, raw |-> quoted(<<78>>)]
              [] name = "elt_code" -> [present |-> TRUE, raw |-> quoted(<<55>>)]
              [] name \in DOMAIN flags ->
                    [present |-> TRUE, raw |-> quoted(flags[name])]
              [] OTHER -> [present |-> FALSE, raw |-> <<>>]]

\* The texts handed to _fix_mojibake have up to MaxText of the characters A,
\* the Latin-1 letters that are the bytes of a UTF-8 sequence (0xC3, 0xC2,
\* 0x83, 0xA9), e acute, and the euro sign, which Latin-1 has not.
\* The status pages have up to MaxChildren children, each with a tag of
\* StatusField or another tag, and with no text or one of the texts
\* "O, e acute, \x07, n" and "e acute".
\* The alarm entity has the zone fields of a Status ("on", "off", or None
\* of an element without text) and the two configured masks.
InitParse ==
    LET Alphabet == {65, 195, 194, 131, 169, 233, 8364}
        Children == [tag : DOMAIN StatusField \cup {"other"},
                     text : {None, <<79, 233, 7, 110>>, <<233>>}]
        Flags == {<<111, 110>>, Status.zoneA, None}
    IN  /\ InitSession
        /\ IdleNotFn
        /\ \/ \E n \in 0..MaxText : \E text \in [1..n -> Alphabet] :
                    parser = Called("_fix_mojibake", text)
           \/ \E html \in ElementPages :
                    parser = Called("get_elements", html)
           \/ \E n \in 0..MaxChildren : \E page \in [1..n -> Children] :
                    parser = Called("get_status", page)
           \/ \E label \in SensorLabels : \E listed \in BOOLEAN :
                    parser = Called("is_on", [page |-> SensorPage(label, <<>>),
                                              listed |-> listed])
           \/ \E label \in FlaggedLabels : \E flags \in SensorFlags :
              \E listed \in BOOLEAN :
                    parser = Called("is_on", [page |-> SensorPage(label, flags),
                                              listed |-> listed])
           \/ \E data \in [{"zoneA", "zoneB", "zoneC"} -> Flags] :
              \E night_zones, home_zones \in 0..Zone.ABC :
                    parser = Called("__getCurrentState",
                                    [data |-> data, night_zones |-> night_zones,
                                     home_zones |-> home_zones])

Returns(val) ==
    /\ parser' = [parser EXCEPT !.pc = "return", !.val = val]
    /\ UNCHANGED <<sessVars, notFn>>

\* lines 507 and 527-533: a text is repaired by extract_array, and the
\* label, the name and the zone of an element a second time
FixMojibake ==
    /\ parser.name = "_fix_mojibake"
    /\ \/ parser.pc = "call" /\ Returns(<<fix_mojibake(parser.arg)>>)
       \/ /\ parser.pc = "return"
          /\ Len(parser.val) = 1
          /\ Returns(Append(parser.val, fix_mojibake(parser.val[1])))

ParseElements ==
    /\ parser.name = "get_elements"
    /\ parser.pc = "call"
    /\ Returns(elements(parser.arg))

ParseStatus ==
    /\ parser.name = "get_status"
    /\ parser.pc = "call"
    /\ Returns(get_status(parser.arg))

AlarmState ==
    /\ parser.name = "__getCurrentState"
    /\ parser.pc = "call"
    /\ Returns(getCurrentState(parser.arg.data, parser.arg.night_zones,
                               parser.arg.home_zones))

\* async_setup_entry (lines 147-152) builds the sensors of the first element
\* of the page; their is_on is read while the coordinator's list is that of
\* the page, or while it is empty (lines 253-257: no data, or no element there)
ElementSensors ==
    /\ parser.name = "is_on"
    /\ parser.pc = "call"
    /\ LET parsed == elements(parser.arg.page)
           element == parsed[1]
           elts == IF parser.arg.listed THEN parsed ELSE <<>>
       IN  Returns([element |-> element,
                    fields |-> aggregate_fields(element),
                    aggregate |->
                        SomfyElementAggregateBinarySensor_is_on(element, elts),
                    flag |-> [field \in {"battery", "comm", "house", "tamper",
                                         "door", "pause"} |->
                        SomfyElementBinarySensor_is_on(field, elts,
                                                       element.code)]])

NextParse ==
    \/ FixMojibake
    \/ ElementSensors
    \/ ParseElements
    \/ ParseStatus
    \/ AlarmState

SpecParse == InitParse /\ [][NextParse]_vars

(***************************************************************************)
(* The commands of the alarm entity (alarm_control_panel.py, lines         *)
(* 152-187).  A command of the panel (api.arm, api.disarm) is awaited and  *)
(* returns or raises; helper.py is not among the sources, so int_to_zones  *)
(* gives some list of at most MaxZones zones.                              *)
(***************************************************************************)
MaxZones == 2

\* code=None, and arm_code = None of an entity without a configured code
NoCode == "None"

AlarmCodes == {NoCode, "1234", "0000"}

AlarmOps ==
    {"async_alarm_disarm", "async_alarm_arm_home", "async_alarm_arm_night",
     "async_alarm_arm_away"}

\* check_arm_code that accepts a call without a code
check_arm_code_optional(arm_code, code) ==
    IF arm_code = NoCode \/ code = NoCode THEN "None"
    ELSE IF arm_code # code THEN "Invalid code"
    ELSE "None"

\* lines 176-182: the exception raised, or "None" when it returns
check_arm_code(arm_code, code) ==
    IF arm_code = NoCode THEN "None"
    ELSE IF arm_code # code THEN "Invalid code"
    ELSE "None"

\* lines 155, 161, 167, 173 and 184-187: the commands of an operation, one
\* api.arm for each zone of int_to_zones
AlarmCommands(op, zones) ==
    CASE op = "async_alarm_disarm" -> <<"disarm">>
      [] op = "async_alarm_arm_away" -> <<"arm ABC">>
      [] OTHER -> [i \in 1..Len(zones) |-> "arm " \o zones[i]]

\* an operation of the entity is called with a code
InitAlarm ==
    /\ InitSession
    /\ IdleNotFn
    /\ \E op \in AlarmOps : \E arm_code \in AlarmCodes \ {"0000"} :
       \E code \in AlarmCodes : \E n \in 0..MaxZones :
       \E zones \in [1..n -> {"A", "B", "C"}] :
            /\ op \in {"async_alarm_disarm", "async_alarm_arm_away"} => n = 0
            /\ parser = Called(op, [arm_code |-> arm_code, code |-> code,
                                    zones |-> zones])

\* lines 154, 160, 166, 172: check_arm_code raises, or the commands begin
AlarmCheckCode ==
    /\ parser.name \in AlarmOps
    /\ parser.pc = "call"
    /\ LET e == check_arm_code(parser.arg.arm_code, parser.arg.code)
       IN  parser' =
            [parser EXCEPT
                !.pc = IF e = "None" THEN "command" ELSE "return",
                !.val = [pending |-> AlarmCommands(parser.name, parser.arg.zones),
                         trace |-> <<>>,
                         exc |-> e]]
    /\ UNCHANGED <<sessVars, notFn>>

\* lines 155, 161, 167, 173, 187: the next command is sent and awaited; it
\* returns, or its exception leaves the operation
AlarmCommand ==
    /\ parser.name \in AlarmOps
    /\ parser.pc = "command"
    /\ parser.val.pending # <<>>
    /\ \E raised \in BOOLEAN :
        parser' =
            [parser EXCEPT
                !.pc = IF raised THEN "return" ELSE "command",
                !.val = [pending |-> Tail(parser.val.pending),
                         trace |-> Append(parser.val.trace,
                                          [event |-> Head(parser.val.pending),
                                           raised |-> raised]),
                         exc |-> IF raised THEN "SomfyException" ELSE "None"]]
    /\ UNCHANGED <<sessVars, notFn>>

\* lines 156, 162, 168, 174: coordinator.async_request_refresh()
AlarmRefresh ==
    /\ parser.name \in AlarmOps
    /\ parser.pc = "command"
    /\ parser.val.pending = <<>>
    /\ parser' =
            [parser EXCEPT
                !.pc = "return",
                !.val.trace = Append(@, [event |-> "refresh", raised |-> FALSE])]
    /\ UNCHANGED <<sessVars, notFn>>

NextAlarm ==
    \/ AlarmCheckCode
    \/ AlarmCommand
    \/ AlarmRefresh

SpecAlarm == InitAlarm /\ [][NextAlarm]_vars

(***************************************************************************)
(* get_elements (lines 465-497) and get_version (lines 209-233), as far as *)
(* their requests go: both catch every exception of __do_call.             *)
(***************************************************************************)
\* line 467: candidates, by the position of get_elements in its loop
ElementsPc == <<"elements1", "elements2", "elements3">>

ElementsFrame(i) == [Frame("op", ElementsPc[i]) EXCEPT !.op = "get_elements"]

\* line 472: __do_call("get", candidate)
ElementsCallFrame ==
    CallFrame("get", "elements", NoCookie, "none", TRUE, TRUE, TRUE, "main")

VersionFrame == [Frame("op", "version_login") EXCEPT !.op = "get_version"]

\* lines 213-215 and 226-228: login=False, authenticated=False
VersionCallFrame(page) ==
    CallFrame("get", page, NoCookie, "none", TRUE, FALSE, FALSE, "main")

\* a caller invokes get_elements or get_version
StartScrape(t, op) ==
    /\ running = NoTask
    /\ stack[t] = <<>>
    /\ stack' = [stack EXCEPT ![t] =
            IF op = "get_elements"
            THEN <<ElementsFrame(1), ElementsCallFrame>>
            ELSE <<VersionFrame, VersionCallFrame("login")>>]
    /\ running' = t
    /\ result' = [result EXCEPT ![t] = [op |-> "", ret |-> NoRet]]
    /\ nLogins' = [nLogins EXCEPT ![t] = 0]
    /\ nMain' = [nMain EXCEPT ![t] = 0]
    /\ nReset' = [nReset EXCEPT ![t] = 0]
    /\ mainHist' = [mainHist EXCEPT ![t] = <<>>]
    /\ clean' = [clean EXCEPT ![t] = TRUE]
    /\ sent' = [sent EXCEPT ![t] = {}]
    /\ UNCHANGED <<cookie, http, ret, lastSetCookie, auxVars>>

\* the operation goes on to a request of its own that is not a retry: what
\* is recorded of the operation's request starts anew
NewRequest(t) ==
    /\ nLogins' = [nLogins EXCEPT ![t] = 0]
    /\ nMain' = [nMain EXCEPT ![t] = 0]
    /\ nReset' = [nReset EXCEPT ![t] = 0]
    /\ mainHist' = [mainHist EXCEPT ![t] = <<>>]
    /\ clean' = [clean EXCEPT ![t] = TRUE]
    /\ sent' = [sent EXCEPT ![t] = {}]

\* the operation ends with the value v (these two never raise)
ScrapeEnds(t, v) ==
    /\ stack' = [stack EXCEPT ![t] = <<>>]
    /\ result' = [result EXCEPT ![t] = [op |-> Top(t).op, ret |-> RetVal(v)]]
    /\ ret' = [ret EXCEPT ![t] = NoRet]
    /\ running' = NoTask
    /\ UNCHANGED <<cookie, http, nLogins, nMain, nReset, mainHist, clean,
                   lastSetCookie, sent, auxVars>>

\* lines 491-493: the candidate failed, the next one is tried
ElementsNext(t) ==
    /\ \E i \in 1..2 :
        /\ At(t, "op", ElementsPc[i])
        /\ ret[t].kind = "exc"
        /\ stack' = [stack EXCEPT
                ![t] = <<ElementsFrame(i + 1), ElementsCallFrame>>]
    /\ ret' = [ret EXCEPT ![t] = NoRet]
    /\ NewRequest(t)
    /\ UNCHANGED <<cookie, http, running, result, lastSetCookie, auxVars>>

\* the numbers of elements that the pages have
ElementCounts == {Len(elements(html)) : html \in ElementPages}

\* lines 489, 495-541: a page was read (break) and its elements are
\* returned, "[]" if it has none; or no candidate is left and [] is
ElementsReturn(t) ==
    /\ \E i \in 1..3 : At(t, "op", ElementsPc[i])
    /\ \/ /\ ret[t].kind = "resp"
          /\ \E n \in ElementCounts :
                ScrapeEnds(t, IF n = 0 THEN "[]" ELSE "elements")
       \/ /\ ret[t].kind = "exc"
          /\ At(t, "op", ElementsPc[3])
          /\ ScrapeEnds(t, "[]")

\* lines 216-228: the footer has a year and the variant has a version page
VersionAfterLogin(t) ==
    /\ At(t, "op", "version_login")
    /\ ret[t].kind = "resp"
    /\ stack' = [stack EXCEPT ![t] =
            <<[VersionFrame EXCEPT !.pc = "version_page"],
              VersionCallFrame("version")>>]
    /\ ret' = [ret EXCEPT ![t] = NoRet]
    /\ NewRequest(t)
    /\ UNCHANGED <<cookie, http, running, result, lastSetCookie, auxVars>>

\* get_version with the text in parentheses whatever became of the version
\* page
version_string_always_appends(pc, r, footer, readable) ==
    IF pc = "version_login"
    THEN IF r.kind = "resp" /\ footer THEN "year" ELSE "Unknown"
    ELSE "year (version)"

\* lines 211-233, version_string when get_version returns: r is what the
\* last __do_call gave, footer whether the pattern of line 219 matches the
\* footer (len(None.groups()) raises if not), readable whether
\* response.text() of line 229 decodes
version_string(pc, r, footer, readable) ==
    IF pc = "version_login"
    THEN IF r.kind = "resp" /\ footer THEN "year" ELSE "Unknown"
    ELSE IF r.kind = "resp" /\ readable THEN "year (version)" ELSE "year"

\* lines 231-233: a request or the parsing raised, or the variant has no
\* version page, or the version page was read
VersionReturn(t) ==
    \E footer, has_version_page, readable \in BOOLEAN :
        /\ \/ /\ At(t, "op", "version_login")
              /\ \/ ret[t].kind = "exc"
                 \/ ret[t].kind = "resp" /\ ~(footer /\ has_version_page)
           \/ At(t, "op", "version_page") /\ ret[t].kind \in {"resp", "exc"}
        /\ ScrapeEnds(t, version_string(Top(t).pc, ret[t], footer, readable))

(***************************************************************************)
(* Every caller-facing operation, a panel that answers every request or    *)
(* lets it time out, and an event loop that runs what is ready.  The       *)
(* interpreter ends a chain of nested coroutines that is too deep.         *)
(***************************************************************************)
\* __login entered MaxLogins deep already: the interpreter raises
\* RecursionError, an Exception for the __do_call that awaits the login
LoginRecursionError(t) ==
    /\ At(t, "login", "start")
    /\ nLogins[t] >= MaxLogins
    /\ stack' = [stack EXCEPT ![t] = Pop(@)]
    /\ ret' = [ret EXCEPT ![t] = RetExc(Exc("RecursionError", "", "", 0, ""))]
    /\ UNCHANGED <<cookie, http, running, result, nLogins, nMain, nReset,
                   mainHist, clean, lastSetCookie, sent, auxVars>>

\* one answer of each kind __do_call tells apart: a request that fails (the
\* timeout), the default page, the error page with a code that makes
\* __do_call log in or reset the session, and any other page, with or
\* without a challenge of the table or a cookie
FairResponses(req) ==
    {r \in Responses(req) :
        /\ r.kind = "resp" => r.status = 200
        /\ r.kind # "transport"
        /\ r.code \in {NoElement, NOT_AUTHORIZED, SESSION_ALREADY_OPEN}
        /\ r.path = "error" => r.code # NoElement
        /\ r.challenge \in CodesTable \cup {NoElement}
        /\ r.setCookie \in {NoCookie, 1}}

\* what a started operation does next
Progress(t) ==
    \/ CallSend(t)
    \/ \E r \in FairResponses(http[t].req) : PanelRespond(t, r)
    \/ CallRaise(t)
    \/ CallReturn(t)
    \/ CallLogin(t)
    \/ CallReset(t)
    \/ CallPropagate(t)
    \/ CallAfterLogin(t)
    \/ CallAfterReset(t)
    \/ CallAfterRelogin(t)
    \/ CallTail(t)
    \/ LoginStart(t)
    \/ LoginAfterChallenge(t)
    \/ LoginAfterPost(t)
    \/ LoginPropagate(t)
    \/ ChallengeStart(t)
    \/ ChallengeReturn(t)
    \/ OpReturn(t)
    \/ CardAfterLogin(t)
    \/ CardAfterScrape(t)
    \/ CardAfterLogout(t)
    \/ CardRaise(t)
    \/ ElementsNext(t)
    \/ ElementsReturn(t)
    \/ VersionAfterLogin(t)
    \/ VersionReturn(t)
    \/ LoginRecursionError(t)

FairStep(t) ==
    \/ \E op \in Ops : StartOp(t, op)
    \/ \E hasCode \in BOOLEAN : StartCard(t, hasCode)
    \/ \E op \in {"get_elements", "get_version"} : StartScrape(t, op)
    \/ Progress(t)

NextFair == \E t \in SeqTasks : FairStep(t)

\* a sequentially used session whose version is asked for between its
\* operations, and a panel that answers with any response it can produce
NextVersion ==
    \E t \in SeqTasks :
        \/ Step(t)
        \/ StartScrape(t, "get_version")
        \/ VersionAfterLogin(t)
        \/ VersionReturn(t)

SpecVersion == Init /\ [][NextVersion]_vars

SpecFair ==
    /\ Init
    /\ [][NextFair]_vars
    /\ \A t \in SeqTasks : WF_vars(Progress(t))

\* the operations that are one call() of the state machine
CallOps == {"logout", "command", "get_status"}
\* the call() operations made with retry allowed
RetryOps == {"command", "get_status"}

(***************************************************************************)
(* Two callers on one session.  Each makes one call(); a coroutine runs    *)
(* until it awaits a response, and the other may run in between.  The      *)
(* panel's answers are those that make a call log in, and let the login    *)
(* succeed with a cookie or time out.                                      *)
(***************************************************************************)
\* a cookie left by an earlier login, none the panel hands out again
OldCookie == MaxCookie + 1

ConcResponses(req) ==
    {r \in Responses(req) :
        \/ r.kind = "timeout" /\ req.role = "login_post"
        \/ /\ r.kind = "resp"
           /\ r.status = 200
           /\ \/ r.path = "default" /\ req.role = "main"
              \/ /\ r.path = "error"
                 /\ r.code \in {SESSION_ALREADY_OPEN, NOT_AUTHORIZED}
                 /\ req.role = "main"
              \/ /\ r.path = "other"
                 /\ req.role = "challenge" => r.challenge \in CodesTable
                 /\ req.role = "login_post" => r.setCookie # NoCookie}

InitConc ==
    /\ cookie \in {NoCookie, OldCookie}
    /\ stack = [t \in Tasks |-> <<>>]
    /\ http = [t \in Tasks |-> Idle]
    /\ ret = [t \in Tasks |-> NoRet]
    /\ running = NoTask
    /\ result = [t \in Tasks |-> [op |-> "", ret |-> NoRet]]
    /\ nLogins = [t \in Tasks |-> 0]
    /\ nMain = [t \in Tasks |-> 0]
    /\ nReset = [t \in Tasks |-> 0]
    /\ mainHist = [t \in Tasks |-> <<>>]
    /\ clean = [t \in Tasks |-> TRUE]
    /\ lastSetCookie = NoCookie
    /\ sent = [t \in Tasks |-> {}]
    /\ InitAux

\* a caller makes its one call()
StartCall(t, op) ==
    /\ result[t].op = ""
    /\ StartOp(t, op)

ConcStep(t) ==
    \/ \E op \in RetryOps : StartCall(t, op)
    \/ CallSend(t)
    \/ \E r \in ConcResponses(http[t].req) : PanelRespond(t, r)
    \/ CallRaise(t)
    \/ CallReturn(t)
    \/ CallLogin(t)
    \/ CallReset(t)
    \/ CallPropagate(t)
    \/ CallAfterLogin(t)
    \/ CallAfterReset(t)
    \/ CallAfterRelogin(t)
    \/ CallTail(t)
    \/ LoginStart(t)
    \/ LoginAfterChallenge(t)
    \/ LoginAfterPost(t)
    \/ LoginPropagate(t)
    \/ ChallengeStart(t)
    \/ ChallengeReturn(t)
    \/ OpReturn(t)

NextConc == \E t \in Tasks : ConcStep(t)

SpecConc == InitConc /\ [][NextConc]_vars

(***************************************************************************)
(* Vocabulary of the properties.                                           *)
(***************************************************************************)
\* the operation t runs, or ran last
CurOp(t) == IF Len(stack[t]) > 0 THEN stack[t][1].op ELSE result[t].op
\* t's operation has ended
Done(t) == stack[t] = <<>> /\ result[t].op # ""

IsDefaultPage(r) == r.kind = "resp" /\ r.status = 200 /\ r.path = "default"
IsErrorPage(r) == r.kind = "resp" /\ r.status = 200 /\ r.path = "error"
IsNormalPage(r) == r.kind = "resp" /\ r.status = 200 /\ r.path = "other"

\* t, resumed on a response, has taken its step
Handled(t) == Resumes(t) /\ stack'[t] # stack[t]
\* that step sent nothing, logged in nowhere and left the cookie alone
Quiet(t) ==
    /\ http'[t].state = "idle"
    /\ cookie' = cookie
    /\ nLogins'[t] = nLogins[t]
    /\ nReset'[t] = nReset[t]
    /\ nMain'[t] = nMain[t]
\* that step made the call fail with e
FailsWith(t, e) ==
    /\ stack'[t] = Pop(stack[t])
    /\ ret'[t] = RetExc(e)

(***************************************************************************)
(* C1.  One top-level call() sends its request at most three times (the    *)
(* original and two re-sends) and triggers at most 2 logins, whatever the  *)
(* panel answers, the login-page GET of login itself included.             *)
(***************************************************************************)
C1_RetryBudget ==
    \A t \in Tasks :
        CurOp(t) \in CallOps => nMain[t] <= 3 /\ nLogins[t] <= 2

(***************************************************************************)
(* C2.  A call() answered with the default page and then again with the    *)
(* default page, the login requests succeeding, attempts exactly 2 logins  *)
(* and then fails.                                                         *)
(***************************************************************************)
DefaultTwice(t) ==
    /\ CurOp(t) \in RetryOps
    /\ Len(mainHist[t]) = 2
    /\ IsDefaultPage(mainHist[t][1])
    /\ IsDefaultPage(mainHist[t][2])
    /\ clean[t]

C2_TwoLoginsThenFail ==
    \A t \in Tasks :
        (Done(t) /\ DefaultTwice(t)) =>
            nLogins[t] = 2 /\ result[t].ret.kind = "exc"

\* C2 as amended: in that run the state machine attempts exactly 1 login and
\* sends the request exactly twice; no second login and no third send follow.
C2_OneLoginOneRetry ==
    \A t \in Tasks :
        DefaultTwice(t) => nLogins[t] = 1 /\ nMain[t] = 2

C2_Witness ==
    \E t \in Tasks : Done(t) /\ DefaultTwice(t) /\ nLogins[t] = 1

(***************************************************************************)
(* C3.  A 200 response at the default page with the retry exhausted is not *)
(* returned as a successful result: no call() returns the default page.    *)
(***************************************************************************)
C3_DefaultPageNotReturned ==
    \A t \in Tasks :
        /\ ret[t].kind = "resp" => ~IsDefaultPage(ret[t].resp)
        /\ result[t].ret.kind = "resp" => ~IsDefaultPage(result[t].ret.resp)

(***************************************************************************)
(* C4.  A call() made with retry allowed whose first response is the error *)
(* page with SESSION_ALREADY_OPEN and whose later requests all succeed     *)
(* performs exactly one reset-session POST and exactly one retry, and      *)
(* returns the retry's response.                                           *)
(***************************************************************************)
ConflictThenSuccess(t) ==
    /\ CurOp(t) \in RetryOps
    /\ Len(mainHist[t]) >= 1
    /\ IsErrorPage(mainHist[t][1])
    /\ mainHist[t][1].code = SESSION_ALREADY_OPEN
    /\ \A i \in 2..Len(mainHist[t]) : IsNormalPage(mainHist[t][i])
    /\ clean[t]

C4_OneResetOneRetry ==
    \A t \in Tasks :
        (Done(t) /\ ConflictThenSuccess(t)) =>
            /\ nReset[t] = 1
            /\ nMain[t] = 2
            /\ Len(mainHist[t]) = 2
            /\ result[t].ret = RetResp(mainHist[t][2])

C4_Witness ==
    \E t \in Tasks :
        /\ Done(t)
        /\ ConflictThenSuccess(t)
        /\ result[t].op = "command"
        /\ nLogins[t] = 1
        /\ result[t].ret.kind = "resp"

(***************************************************************************)
(* C5.  SESSION_ALREADY_OPEN with the retry exhausted: the call fails with *)
(* the 'too many retries' session-conflict error, sends no reset POST,     *)
(* performs no login and leaves the cookie unchanged.                      *)
(***************************************************************************)
C5_ConflictExhausted ==
    [][\A t \in Tasks :
        (/\ Handled(t)
         /\ IsErrorPage(http[t].resp)
         /\ http[t].resp.code = SESSION_ALREADY_OPEN
         /\ ~Top(t).retry) =>
            /\ FailsWith(t, Exc("Somfy", "TooManyLoginRetries", "", 0, ""))
            /\ Quiet(t)]_vars

C5_Witness ==
    \E t \in Tasks :
        /\ Done(t)
        /\ result[t].op = "logout"
        /\ mainHist[t][1].code = SESSION_ALREADY_OPEN
        /\ result[t].ret.exc.err = "TooManyLoginRetries"
        /\ cookie # NoCookie

(***************************************************************************)
(* C6.  WRONG_CREDENTIALS, MAX_LOGIN_ATTEMPTS, WRONG_CODE and              *)
(* UNKNOWN_PARAMETER make the call fail at once with the error named for   *)
(* the code, for every retryAllowed and loginAllowed: no login, no reset   *)
(* POST, no further request, cookie unchanged.                             *)
(***************************************************************************)
NamedError(code) ==
    CASE code = WRONG_CREDENTIALS -> "WrongCredentials"
      [] code = MAX_LOGIN_ATTEMPS -> "MaxAttempts"
      [] code = WRONG_CODE -> "WrongCode"
      [] code = UNKNOWN_PARAMETER -> "UnknownParameter"

C6_FatalCodes ==
    [][\A t \in Tasks :
        (/\ Handled(t)
         /\ IsErrorPage(http[t].resp)
         /\ http[t].resp.code \in {WRONG_CREDENTIALS, MAX_LOGIN_ATTEMPS,
                                   WRONG_CODE, UNKNOWN_PARAMETER}) =>
            /\ FailsWith(t, Exc("Somfy", NamedError(http[t].resp.code),
                                "", 0, ""))
            /\ Quiet(t)]_vars

C6_Witness ==
    \E t \in Tasks :
        /\ Done(t)
        /\ result[t].op = "command"
        /\ mainHist[t] = <<Resp("resp", 200, "error", WRONG_CODE, NoElement,
                                NoCookie)>>
        /\ result[t].ret.exc.err = "WrongCode"
        /\ nLogins[t] = 0
        /\ cookie # NoCookie

(***************************************************************************)
(* C7.  An error page whose code is none of the six known codes makes the  *)
(* call fail with the unknown-error-code error carrying the scraped code   *)
(* unchanged, with no retry and no login.                                  *)
(***************************************************************************)
C7_UnknownCode ==
    [][\A t \in Tasks :
        (/\ Handled(t)
         /\ IsErrorPage(http[t].resp)
         /\ http[t].resp.code \notin SomfyError \cup {NoElement}) =>
            /\ FailsWith(t, Exc("Somfy", "UnknownErrorCode",
                                http[t].resp.code, 0, ""))
            /\ Quiet(t)]_vars

C7_Witness ==
    \E t \in Tasks :
        /\ Done(t)
        /\ result[t].op = "command"
        /\ Len(mainHist[t]) = 1
        /\ mainHist[t][1].code = "(0x0B01)"
        /\ result[t].ret.exc.err = "UnknownErrorCode"
        /\ result[t].ret.exc.code = "(0x0B01)"

(***************************************************************************)
(* C8.  A response with a status other than 200 makes the call fail with   *)
(* the HTTP-status error carrying the status, whatever the response path,  *)
(* with no login and no retry; a 200 response that is neither the default  *)
(* page nor the error page is returned as-is.                              *)
(***************************************************************************)
C8_StatusAndSuccess ==
    [][\A t \in Tasks :
        /\ (/\ Handled(t)
            /\ http[t].resp.kind = "resp"
            /\ http[t].resp.status # 200) =>
                /\ FailsWith(t, Exc("Somfy", "HttpError", "",
                                    http[t].resp.status, ""))
                /\ Quiet(t)
        /\ (Handled(t) /\ IsNormalPage(http[t].resp)) =>
                /\ stack'[t] = Pop(stack[t])
                /\ ret'[t] = RetResp(http[t].resp)
                /\ Quiet(t)]_vars

C8_Witness ==
    \E t \in Tasks :
        /\ Done(t)
        /\ result[t].op = "command"
        /\ Len(mainHist[t]) = 1
        /\ mainHist[t][1].path = "default"
        /\ result[t].ret.exc.err = "HttpError"
        /\ result[t].ret.exc.status = 500
        /\ nLogins[t] = 0

(***************************************************************************)
(* C9.  Every request call() issues, re-sent requests included, carries a  *)
(* Cookie header iff authenticated is true and a cookie is stored when it  *)
(* is sent, and the header then equals the cookie stored at that moment.   *)
(***************************************************************************)
C9_CookieHeader ==
    \A t \in Tasks :
        http[t].state = "sent" =>
            http[t].req.hdr =
                (IF http[t].req.auth /\ http[t].req.stored # NoCookie
                 THEN http[t].req.stored ELSE NoCookie)

(***************************************************************************)
(* C10.  Sequential use: the stored cookie is None or the Set-Cookie value *)
(* of the most recent completed login; it is None from the start of any    *)
(* login until that login completes, after a login that fails, after a     *)
(* completed logout and after a SESSION_ALREADY_OPEN reset that no login   *)
(* follows.                                                                *)
(***************************************************************************)
\* some frame of t satisfies P
OnStack(t, P(_)) == \E i \in 1..Len(stack[t]) : P(stack[t][i])

LoginUnderWay(f) == f.fn = "login" /\ f.pc # "start"
AwaitsLogin(f) ==
    \/ f.fn = "call" /\ f.pc \in {"login", "relogin"}
    \/ f.fn = "op" /\ f.op = "init"
ResetWithoutLogin(f) ==
    f.fn = "call" /\ f.pc = "tail" /\ f.why = "reset" /\ ~f.login

C10_CookieOfLastLogin == cookie \in {NoCookie, lastSetCookie}
C10_NoneDuringLogin ==
    \A t \in Tasks : OnStack(t, LoginUnderWay) => cookie = NoCookie
C10_NoneAfterFailedLogin ==
    \A t \in Tasks :
        (Len(stack[t]) > 0 /\ AwaitsLogin(Top(t)) /\ ret[t].kind = "exc")
            => cookie = NoCookie
C10_NoneAfterLogout ==
    \A t \in Tasks :
        (Done(t) /\ result[t].op = "logout" /\ result[t].ret.kind = "resp")
            => cookie = NoCookie
C10_NoneAfterReset ==
    \A t \in Tasks : OnStack(t, ResetWithoutLogin) => cookie = NoCookie

C10_CookieInvariant ==
    /\ C10_CookieOfLastLogin
    /\ C10_NoneDuringLogin
    /\ C10_NoneAfterFailedLogin
    /\ C10_NoneAfterLogout
    /\ C10_NoneAfterReset

(***************************************************************************)
(* C11.  A login without an explicit code whose challenge is absent from   *)
(* the configured table fails with the ChallengeNotFound client error,     *)
(* sends no login POST and leaves the cookie None, in init and in call().  *)
(***************************************************************************)
ChallengeNotFound == Exc("Somfy", "ChallengeNotFound", "", 0, "")

C11_ChallengeNotFound ==
    [][\A t \in Tasks :
        (/\ At(t, "login", "challenge")
         /\ ret[t].kind = "val"
         /\ ret[t].val \notin CodesTable
         /\ stack'[t] # stack[t]) =>
            /\ FailsWith(t, ChallengeNotFound)
            /\ http'[t].state = "idle"
            /\ cookie' = NoCookie]_vars

(***************************************************************************)
(* C12.  After a login whose POST returns a normal 200 page the stored     *)
(* cookie is the response's Set-Cookie value, None when the header is      *)
(* absent, and the login completes without error.  The login POST runs     *)
(* with retry and login disabled: it never awaits a login or a reset.      *)
(***************************************************************************)
IsLoginPost(f) == f.fn = "call" /\ f.data = "login_form"

LoginPostPlain ==
    \A t \in Tasks : \A i \in 1..Len(stack[t]) :
        IsLoginPost(stack[t][i]) =>
            /\ ~stack[t][i].retry
            /\ ~stack[t][i].login
            /\ stack[t][i].pc \in {"start", "await"}

C12_LoginStoresSetCookie ==
    /\ []LoginPostPlain
    /\ [][\A t \in Tasks :
            (/\ At(t, "login", "post")
             /\ ret[t].kind = "resp"
             /\ IsNormalPage(ret[t].resp)
             /\ stack'[t] # stack[t]) =>
                /\ cookie' = ret[t].resp.setCookie
                /\ stack'[t] = Pop(stack[t])
                /\ ret'[t] = RetVal("")]_vars

C12_Witness ==
    \E t \in Tasks :
        /\ Done(t)
        /\ result[t].op = "init"
        /\ result[t].ret = RetVal("")
        /\ nLogins[t] = 1
        /\ lastSetCookie = NoCookie
        /\ cookie = NoCookie


(***************************************************************************)
(* C13: in get_challenge_card, once the initial login has succeeded (the   *)
(* card page was requested), a logout request is always issued and the     *)
(* cookie is cleared before the operation ends, whether the scrape         *)
(* succeeds or fails.                                                      *)
(***************************************************************************)
CardDone(t) == Done(t) /\ result[t].op = "get_challenge_card"

C13_CardAlwaysLogsOut ==
    \A t \in Tasks :
        (CardDone(t) /\ "main" \in sent[t]) =>
            /\ "logout" \in sent[t]
            /\ cookie = NoCookie


(***************************************************************************)
(* C14: get_challenge_card maps the i-th scraped cell (0-based, i < 30) to *)
(* the key made of letter number (i mod 6) of A..F and the row number      *)
(* floor(i/6)+1, holding that cell's text; 30 cells give exactly the 30    *)
(* distinct keys A1..F5, in row-major order.                               *)
(***************************************************************************)
GridKey(i) == <<chars[(i % 6) + 1], Digits[(i \div 6) + 2]>>

GridKeys == {<<chars[c], Digits[r + 1]>> : c \in 1..6, r \in 1..5}

C14_GridMapping ==
    /\ \A i \in 0..29 :
            i < card.global_index =>
                /\ i + 1 \in DOMAIN card.challenges
                /\ card.challenges[i + 1] =
                        [key |-> GridKey(i), val |-> card.cells[i + 1]]
    /\ (card.pc = "done" /\ Len(card.cells) = 30) =>
            /\ Len(card.challenges) = 30
            /\ {card.challenges[j].key : j \in 1..30} = GridKeys
            /\ Cardinality(GridKeys) = 30

C14_Witness ==
    /\ card.pc = "done"
    /\ Len(card.cells) = 30
    /\ card.challenges[30] = [key |-> <<"F", "5">>, val |-> card.cells[30]]
    /\ card.challenges[7].key = <<"A", "2">>


(***************************************************************************)
(* Vocabulary of the detection properties: what the probes made so far     *)
(* were answered.                                                          *)
(***************************************************************************)
PosOf(a) == CHOOSE i \in DOMAIN ApiOrder : ApiOrder[i] = a
ProbeIdx == DOMAIN guess.probes
Is302(r) == r.kind = "resp" /\ r.status = 302
Ok200(r) == r.kind = "resp" /\ r.status = 200
GuessDone == guess.pc = "done"
Selected(a) ==
    GuessDone /\ guess.result = RetVal(a) /\ guess.api_type = a

\* a's version page answered 200
VersionAnswered200(a) ==
    \E i \in ProbeIdx :
        /\ guess.probes[i].api = a
        /\ guess.probes[i].page = "version"
        /\ Ok200(guess.probes[i].resp)

\* a's login page was fetched and showed a challenge of the grammar: exactly
\* one letter A..F, then exactly one digit 1..5
LoginGrammar(a) ==
    \E i \in ProbeIdx :
        /\ guess.probes[i].api = a
        /\ guess.probes[i].page = "login"
        /\ Ok200(guess.probes[i].resp)
        /\ guess.probes[i].resp.decodable
        /\ ReMatchWhole(guess.probes[i].resp.text)

Selectable(a) ==
    /\ guess.hasVersion[a] => VersionAnswered200(a)
    /\ LoginGrammar(a)

ProbesInOrder ==
    \A i, j \in ProbeIdx :
        i < j => PosOf(guess.probes[i].api) <= PosOf(guess.probes[j].api)

(***************************************************************************)
(* C15: detection probes the three variants in one fixed priority order    *)
(* and returns the first variant whose version page (if it declares one)   *)
(* answers 200 and whose login-page challenge matches the grammar;         *)
(* api_type is set to it, and no request is made for any later variant.    *)
(***************************************************************************)
C15_FirstMatchSelected ==
    /\ ProbesInOrder
    /\ \A a \in ApiTypes : Selectable(a) => Selected(a)
    /\ (GuessDone /\ guess.result.kind = "val") =>
            /\ guess.result.val \in ApiTypes
            /\ Selectable(guess.result.val)
            /\ guess.api_type = guess.result.val
            /\ \A i \in ProbeIdx :
                    PosOf(guess.probes[i].api) <= PosOf(guess.result.val)

(***************************************************************************)
(* C16: if any probe of detection (version or login page of any candidate) *)
(* answers 302, the whole detection fails with the temporarily-unavailable *)
(* error and nothing is probed afterwards; the 302 never merely            *)
(* disqualifies the candidate.                                             *)
(***************************************************************************)
C16_RedirectFailsDetection ==
    \A i \in ProbeIdx :
        Is302(guess.probes[i].resp) =>
            /\ i = Len(guess.probes)
            /\ GuessDone
            /\ guess.result = RetExc(Unavailable)
            /\ guess.api_type = NoApi

C16_Witness ==
    /\ GuessDone
    /\ Len(guess.probes) >= 3
    /\ Is302(guess.probes[Len(guess.probes)].resp)
    /\ guess.probes[Len(guess.probes)].page = "login"
    /\ guess.probes[Len(guess.probes)].api = ApiOrder[2]
    /\ guess.result = RetExc(Unavailable)

(***************************************************************************)
(* C17: a candidate whose declared version page answers a status other     *)
(* than 200 and 302 is disqualified without its login page being fetched,  *)
(* and probing continues with the next candidate; when no candidate passes *)
(* all checks, detection fails with the detection-failed error and         *)
(* api_type is not set.                                                    *)
(***************************************************************************)
BadVersion(p) ==
    /\ p.page = "version"
    /\ p.resp.kind = "resp"
    /\ p.resp.status \notin {200, 302}

\* the check of candidate a that the probes show to have failed, the
\* challenge being tested as line 272 tests it
FailedACheck(a) ==
    \E i \in ProbeIdx :
        /\ guess.probes[i].api = a
        /\ \/ BadVersion(guess.probes[i])
           \/ /\ guess.probes[i].resp.kind \in {"resp", "other_error"}
              /\ ~Is302(guess.probes[i].resp)
              /\ ~(Ok200(guess.probes[i].resp) /\ guess.probes[i].resp.decodable)
           \/ /\ guess.probes[i].page = "login"
              /\ Ok200(guess.probes[i].resp)
              /\ ~ReMatch(guess.probes[i].resp.text)

\* detection has moved on to the candidate after the one of position n
MovedOn(i, n) ==
    IF i < Len(guess.probes)
    THEN guess.probes[i + 1].api = ApiOrder[n + 1]
    ELSE \/ guess.pc = "iter" /\ guess.idx = n + 1
         \/ guess.pc \in {"version", "login"} /\ guess.api = ApiOrder[n + 1]

C18_ExactGrammar ==
    \A i \in ProbeIdx :
        LET p == guess.probes[i]
        IN (p.page = "login" /\ Ok200(p.resp) /\ p.resp.decodable) =>
                IF ReMatchWhole(p.resp.text)
                THEN i = Len(guess.probes) /\ Selected(p.api)
                ELSE /\ guess.result # RetVal(p.api)
                     /\ guess.api_type # p.api


(***************************************************************************)
(* C19: for two concurrent call() invocations on one session that each     *)
(* trigger a login, in every interleaving in which both logins succeed,    *)
(* once both calls have completed the stored cookie is the Set-Cookie      *)
(* value of the login that wrote last: never None, never a value from      *)
(* before both logins.                                                     *)
(***************************************************************************)
LoggedIn(t) == "logged_in" \in sent[t]

BothCallsLoggedIn ==
    \A t \in Tasks :
        /\ Done(t)
        /\ result[t].op \in RetryOps
        /\ LoggedIn(t)

C19_LastWriterWins ==
    BothCallsLoggedIn =>
        /\ cookie = lastSetCookie
        /\ cookie # NoCookie
        /\ cookie # OldCookie

C19_Witness ==
    /\ BothCallsLoggedIn
    /\ cookie = lastSetCookie
    /\ cookie \in CookieVals
    /\ \A t \in Tasks : nLogins[t] = 1 /\ result[t].ret.kind = "resp"
    /\ nReset[1] = 1
    /\ nReset[2] = 0


(***************************************************************************)
(* C20: if every HTTP request returns or times out, every caller-facing    *)
(* operation (login, get_status, get_elements, get_version,                *)
(* get_challenge_card, the commands, logout) eventually returns a result   *)
(* or fails, whatever the panel answers; no operation runs forever.        *)
(***************************************************************************)
InProgress(t) == stack[t] # <<>>

C20_OperationsTerminate ==
    \A t \in SeqTasks : InProgress(t) ~> Done(t)

C20_Witness ==
    \E t \in SeqTasks :
        /\ Done(t)
        /\ result[t].op = "command"
        /\ nLogins[t] = MaxLogins
        /\ result[t].ret.kind = "exc"
        /\ result[t].ret.exc.err = "ReallyWrong"


(***************************************************************************)
(* C21: if a request made by call() times out or fails in transport,       *)
(* call() fails with an error whose message names the attempted path; no   *)
(* response is returned for that request, and the failure causes no login  *)
(* and no retry: it crosses every awaiting __do_call and __login unchanged *)
(* and ends the operation.                                                 *)
(***************************************************************************)
RequestFailed(r) == r.kind \in {"timeout", "transport"}

ClientError(e) ==
    /\ e.cls = "Somfy"
    /\ e.err \in {"Timeout", "Transport"}
    /\ e.page # ""

\* the error for the failure r of the request of frame f
ClientErrorOf(f, r) ==
    Exc("Somfy", IF r.kind = "timeout" THEN "Timeout" ELSE "Transport",
        "", 0, f.page)

C21_TransportFailureSurfaced ==
    [][\A t \in Tasks :
        /\ (Handled(t) /\ RequestFailed(http[t].resp)) =>
                /\ Top(t).page # ""
                /\ FailsWith(t, ClientErrorOf(Top(t), http[t].resp))
                /\ Quiet(t)
        /\ (/\ ret[t].kind = "exc"
            /\ ret[t].exc.err \in {"Timeout", "Transport"}
            /\ stack'[t] # stack[t]) =>
                /\ ClientError(ret[t].exc)
                /\ Quiet(t)
                /\ IF Len(stack[t]) = 1
                   THEN /\ stack'[t] = <<>>
                        /\ result'[t].ret = ret[t]
                   ELSE /\ stack'[t] = Pop(stack[t])
                        /\ ret'[t] = ret[t]]_vars

\* a command whose login timed out on the login page
C21_Witness ==
    \E t \in Tasks :
        /\ Done(t)
        /\ result[t].op = "command"
        /\ result[t].ret = RetExc(Exc("Somfy", "Timeout", "", 0, "login"))
        /\ nLogins[t] = 1
        /\ nMain[t] = 1


(***************************************************************************)
(* C22: get_elements tries the three candidate pages in one fixed order    *)
(* and returns the parse of the first candidate that is fetched and parses *)
(* to at least one element: a candidate that is fetched but parses to zero *)
(* elements does not end the search.  If all three candidates fail it      *)
(* returns the empty list and raises nothing.                              *)
(***************************************************************************)
ElementsAt(t, i) ==
    /\ stack[t] # <<>>
    /\ Top(t).op = "get_elements"
    /\ Top(t).pc = ElementsPc[i]

C22_FirstNonEmptyParse ==
    [][\A t \in Tasks : \A i \in 1..3 :
        (ElementsAt(t, i) /\ stack'[t] # stack[t]) =>
            \/ /\ i < 3
               /\ ret[t].kind = "exc"
               /\ stack'[t] = <<ElementsFrame(i + 1), ElementsCallFrame>>
            \/ /\ stack'[t] = <<>>
               /\ result'[t].op = "get_elements"
               /\ result'[t].ret.kind = "val"
               /\ IF ret[t].kind = "exc" THEN result'[t].ret.val = "[]"
                  ELSE i < 3 => result'[t].ret.val # "[]"]_vars


(***************************************************************************)
(* C23: the number of elements the elements parser returns is the minimum  *)
(* of the lengths of the arrays item_label, elt_name and elt_code (zero    *)
(* when one of them is absent); the elements keep the order of the page;   *)
(* and every optional field whose array is absent or shorter than the      *)
(* element's position is the empty string.                                 *)
(***************************************************************************)
Parsed(name) == parser.name = name /\ parser.pc = "return"

\* the length of the array a literal of the page denotes: no items between
\* the brackets, or one more than there are commas
ArrayLength(a) ==
    IF ~a.present \/ a.raw = <<>> THEN 0
    ELSE 1 + Cardinality({i \in 1..Len(a.raw) : a.raw[i] = 44})

\* item i of the array k of a page
ItemOf(k, i) == <<64 + k, 48 + i>>

Min3(a, b, c) == CHOOSE m \in {a, b, c} : \A x \in {a, b, c} : m <= x

ElementFields ==
    <<"label", "name", "code", "battery", "comm", "door", "zone", "tamper",
      "house", "pause">>

C23_ElementCountAndDefaults ==
    Parsed("get_elements") =>
        LET length(k) == ArrayLength(parser.arg[ArrayNames[k]])
        IN  /\ Len(parser.val) = Min3(length(1), length(2), length(3))
            /\ \A i \in 1..Len(parser.val) : \A k \in 1..10 :
                    parser.val[i][ElementFields[k]] =
                        IF i <= length(k) THEN ItemOf(k, i) ELSE <<>>


(***************************************************************************)
(* C24: get_status builds a fresh Status in which each recognised tag      *)
(* (defaut0..4 -> battery, radio, door, alarm, box; zone0..2 -> zoneA,     *)
(* zoneB, zoneC; gsm, recgsm, opegsm, camera) sets its field to the text   *)
(* of the tag reduced to its printable ASCII characters and lower-cased;   *)
(* unrecognised tags change no field, and the field of an absent tag keeps *)
(* its default.  Of a tag that occurs twice the last occurrence counts,    *)
(* and the text of an element without text is None, which stays None.      *)
(***************************************************************************)
RecognisedTags ==
    [defaut0 |-> "battery", defaut1 |-> "radio", defaut2 |-> "door",
     defaut3 |-> "alarm", defaut4 |-> "box", zone0 |-> "zoneA",
     zone1 |-> "zoneB", zone2 |-> "zoneC", gsm |-> "gsm",
     recgsm |-> "recgsm", opegsm |-> "opegsm", camera |-> "camera"]

\* space to tilde, and \t \n \x0b \x0c \r
KeptCharacters == (32..126) \cup (9..13)

Reduced(text) ==
    IF text = None THEN None
    ELSE LET kept == SelectSeq(text, LAMBDA c : c \in KeptCharacters)
         IN  [i \in 1..Len(kept) |->
                IF kept[i] \in 65..90 THEN kept[i] + 32 ELSE kept[i]]

C24_StatusMapping ==
    Parsed("get_status") =>
        /\ DOMAIN parser.val = DOMAIN Status
        /\ \A tag \in DOMAIN RecognisedTags :
            LET at == {i \in 1..Len(parser.arg) : parser.arg[i].tag = tag}
                last == CHOOSE i \in at : \A j \in at : j <= i
            IN  parser.val[RecognisedTags[tag]] =
                    IF at = {} THEN Status[RecognisedTags[tag]]
                    ELSE Reduced(parser.arg[last].text)

\* <zone0>O(e acute)(\x07)n</zone0> and an unrecognised tag: zoneA is "on",
\* every other field has its default
C24_Witness ==
    /\ Parsed("get_status")
    /\ Len(parser.arg) = 2
    /\ parser.arg[1] = [tag |-> "zone0", text |-> <<79, 233, 7, 110>>]
    /\ parser.arg[2].tag = "other"
    /\ parser.arg[2].text # None
    /\ parser.val = [Status EXCEPT !.zoneA = <<111, 110>>]


(***************************************************************************)
(* C25: get_version never fails.  Whatever the panel does (error pages,    *)
(* statuses other than 200, timeouts, a page without footer, an unreadable *)
(* version page) it returns a string: "Unknown" when no year can be taken  *)
(* from the footer, else the year, followed by the text of the version     *)
(* page in parentheses only when the variant has a version page and that   *)
(* page was fetched.                                                       *)
(***************************************************************************)
VersionAt(t, pc) ==
    /\ stack[t] # <<>>
    /\ Top(t).op = "get_version"
    /\ Top(t).pc = pc

C25_VersionNeverFails ==
    [][\A t \in Tasks : \A pc \in {"version_login", "version_page"} :
        (VersionAt(t, pc) /\ stack'[t] # stack[t]) =>
            \/ /\ pc = "version_login"
               /\ ret[t].kind = "resp"
               /\ stack'[t] = <<[VersionFrame EXCEPT !.pc = "version_page"],
                                VersionCallFrame("version")>>
            \/ /\ stack'[t] = <<>>
               /\ result'[t].op = "get_version"
               /\ result'[t].ret.kind = "val"
               /\ IF pc = "version_login"
                  THEN /\ result'[t].ret.val \in {"Unknown", "year"}
                       /\ ret[t].kind = "exc" => result'[t].ret.val = "Unknown"
                  ELSE /\ result'[t].ret.val \in {"year", "year (version)"}
                       /\ ret[t].kind = "exc" => result'[t].ret.val = "year"]_vars

\* the footer had a year, the request of the version page timed out, and
\* get_version returned the year
C25_Witness ==
    \E t \in Tasks :
        /\ Done(t)
        /\ result[t] = [op |-> "get_version", ret |-> RetVal("year")]
        /\ mainHist[t] # <<>>
        /\ mainHist[t][Len(mainHist[t])].kind = "timeout"


(***************************************************************************)
(* C26: the Zone constants are NONE = 0, A = 1, B = 2, C = 4, ABC = 7: A,  *)
(* B and C are single bits, no two of them share a bit, A|B|C = ABC, and   *)
(* the union of every subset of {A, B, C} is a sub-mask of ABC; so is the  *)
(* mask the alarm entity makes of the zones that are on.                   *)
(***************************************************************************)
RECURSIVE BitAnd(_, _)
BitAnd(a, b) ==
    IF a = 0 \/ b = 0 THEN 0
    ELSE (a % 2) * (b % 2) + 2 * BitAnd(a \div 2, b \div 2)

RECURSIVE BitOr(_, _)
BitOr(a, b) ==
    IF a = 0 THEN b
    ELSE IF b = 0 THEN a
    ELSE (IF a % 2 = 1 \/ b % 2 = 1 THEN 1 ELSE 0)
            + 2 * BitOr(a \div 2, b \div 2)

\* the bitwise OR of the values of the zones of S
RECURSIVE UnionOf(_)
UnionOf(S) ==
    IF S = {} THEN 0
    ELSE LET z == CHOOSE z \in S : TRUE
         IN  BitOr(Zone[z], UnionOf(S \ {z}))

SingleBit(x) == \E k \in 0..7 : x = 2 ^ k

\* the zones whose field is "on"
ZonesOn(data) ==
    {z \in {"A", "B", "C"} :
        data[CASE z = "A" -> "zoneA" [] z = "B" -> "zoneB" [] OTHER -> "zoneC"]
            = <<111, 110>>}

C26_ZoneMasks ==
    /\ Zone.NONE = 0 /\ Zone.A = 1 /\ Zone.B = 2 /\ Zone.C = 4 /\ Zone.ABC = 7
    /\ \A z \in {"A", "B", "C"} : SingleBit(Zone[z])
    /\ \A y, z \in {"A", "B", "C"} : y # z => BitAnd(Zone[y], Zone[z]) = 0
    /\ UnionOf({"A", "B", "C"}) = Zone.ABC
    /\ \A S \in SUBSET {"A", "B", "C"} :
            BitAnd(UnionOf(S), Zone.ABC) = UnionOf(S)
    /\ Parsed("__getCurrentState") =>
            /\ parser.val.active_zones = UnionOf(ZonesOn(parser.arg.data))
            /\ BitAnd(parser.val.active_zones, Zone.ABC)
                    = parser.val.active_zones

\* the three zones are on and the entity's mask is ABC
C26_Witness ==
    /\ Parsed("__getCurrentState")
    /\ ZonesOn(parser.arg.data) = {"A", "B", "C"}
    /\ parser.val.active_zones = Zone.ABC


(***************************************************************************)
(* C30: the state of the alarm entity is a total function of the three     *)
(* zone flags and the configured night and home masks.  With m the bitwise *)
(* OR of A = 1, B = 2, C = 4 over the zones whose value is "on", the state *)
(* is DISARMED iff m = 0, ARMED_AWAY iff m = 7, otherwise ARMED_NIGHT if   *)
(* m = night_zones, otherwise ARMED_HOME if m = home_zones, otherwise      *)
(* UNKNOWN.  So with night_zones = home_zones the state is ARMED_NIGHT,    *)
(* and a night or home mask of 7 is reported as ARMED_AWAY.                *)
(***************************************************************************)
C30_AlarmState ==
    Parsed("__getCurrentState") =>
        LET on(key) == parser.arg.data[key] = <<111, 110>>
            m == BitOr(IF on("zoneA") THEN 1 ELSE 0,
                       BitOr(IF on("zoneB") THEN 2 ELSE 0,
                             IF on("zoneC") THEN 4 ELSE 0))
            state == parser.val.state
            night_zones == parser.arg.night_zones
            home_zones == parser.arg.home_zones
        IN  /\ state \in {"DISARMED", "ARMED_AWAY", "ARMED_NIGHT",
                          "ARMED_HOME", "UNKNOWN"}
            /\ state = "DISARMED" <=> m = 0
            /\ state = "ARMED_AWAY" <=> m = 7
            /\ m \notin {0, 7} =>
                    state = IF m = night_zones THEN "ARMED_NIGHT"
                            ELSE IF m = home_zones THEN "ARMED_HOME"
                            ELSE "UNKNOWN"
            /\ (m \notin {0, 7} /\ m = night_zones /\ night_zones = home_zones)
                    => state = "ARMED_NIGHT"
            /\ (m = 7 /\ (night_zones = 7 \/ home_zones = 7))
                    => state = "ARMED_AWAY"

\* zones A and B are on, and A|B is the night mask and the home mask
C30_Witness ==
    /\ Parsed("__getCurrentState")
    /\ ZonesOn(parser.arg.data) = {"A", "B"}
    /\ parser.arg.night_zones = 3
    /\ parser.arg.home_zones = 3
    /\ parser.val.state = "ARMED_NIGHT"


(***************************************************************************)
(* C27: mojibake repair.  A text that is the Latin-1 reading of UTF-8      *)
(* bytes is repaired to the text that was meant; a text without such       *)
(* corruption (pure ASCII, or accented text that was decoded correctly)    *)
(* passes through unchanged; and repairing a repaired text again, as the   *)
(* elements parser does for label, name and zone, changes nothing.         *)
(***************************************************************************)
\* str.encode("utf-8")
RECURSIVE Utf8Encode(_)
Utf8Encode(text) ==
    IF text = <<>> THEN <<>>
    ELSE LET c == Head(text)
         IN  (IF c < 128 THEN <<c>>
              ELSE IF c < 2048 THEN <<192 + (c \div 64), 128 + (c % 64)>>
              ELSE IF c < 65536
                   THEN <<224 + (c \div 4096), 128 + ((c \div 64) % 64),
                          128 + (c % 64)>>
              ELSE <<240 + (c \div 262144), 128 + ((c \div 4096) % 64),
                     128 + ((c \div 64) % 64), 128 + (c % 64)>>)
             \o Utf8Encode(Tail(text))

\* the texts that were meant: A, U+0083, the copyright sign, A tilde and
\* e acute, whose UTF-8 bytes read as Latin-1 are texts of the model
Meant == UNION {[1..n -> {65, 131, 169, 195, 233}] : n \in 0..(MaxText \div 2)}

C27_MojibakeRepair ==
    Parsed("_fix_mojibake") =>
        /\ \A text \in Meant :
                parser.arg = Utf8Encode(text) => parser.val[1] = text
        /\ (\A i \in 1..Len(parser.arg) : parser.arg[i] \in {65, 233, 8364})
                => parser.val[1] = parser.arg
        /\ Len(parser.val) = 2 => parser.val[2] = parser.val[1]


(***************************************************************************)
(* C28: on SESSION_ALREADY_OPEN with retry allowed, call() does in this    *)
(* order: one POST of the reset-session payload to the error page, sent    *)
(* without a Cookie header and with retry and login disabled; the clearing *)
(* of the stored cookie; a login iff loginAllowed; then one re-send of the *)
(* original request with retryAllowed = false.  If the reset POST fails,   *)
(* the original request is not re-sent and the failure is surfaced.        *)
(***************************************************************************)
\* the frame g is a call of f's request again, with no retry allowed
Resends(g, f, login) ==
    /\ g.fn = "call" /\ g.pc = "start"
    /\ g.method = f.method /\ g.page = f.page /\ g.data = f.data
    /\ g.auth = f.auth /\ g.role = f.role
    /\ ~g.retry
    /\ g.login = login

IsReset(g) ==
    /\ g.fn = "call" /\ g.pc = "start"
    /\ g.method = "post" /\ g.page = "error" /\ g.data = "reset_form"
    /\ g.hdr = NoCookie
    /\ ~g.retry /\ ~g.login /\ ~g.auth

\* the first answer to the request of t's operation is the error page with
\* this code
FirstAnswer(t, code) ==
    /\ mainHist[t] # <<>>
    /\ IsErrorPage(mainHist[t][1])
    /\ mainHist[t][1].code = code

C28_ResetSequence ==
    /\ [](\A t \in Tasks :
            /\ (http[t].state = "sent" /\ http[t].req.data = "reset_form") =>
                    /\ http[t].req.hdr = NoCookie
                    /\ http[t].req.method = "post"
                    /\ http[t].req.page = "error"
                    /\ ~http[t].req.retry
            /\ FirstAnswer(t, SESSION_ALREADY_OPEN) => nMain[t] <= 2)
    /\ [][\A t \in Tasks :
            \* the conflict: the reset POST begins, nothing else happens yet
            /\ (/\ Handled(t)
                /\ IsErrorPage(http[t].resp)
                /\ http[t].resp.code = SESSION_ALREADY_OPEN
                /\ Top(t).retry) =>
                    /\ Len(stack'[t]) = Len(stack[t]) + 1
                    /\ stack'[t][Len(stack[t])].pc = "reset"
                    /\ IsReset(stack'[t][Len(stack'[t])])
                    /\ cookie' = cookie
                    /\ nLogins'[t] = nLogins[t]
                    /\ nMain'[t] = nMain[t]
            \* the reset POST has ended
            /\ (At(t, "call", "reset") /\ stack'[t] # stack[t]) =>
                    IF ret[t].kind = "exc"
                    THEN /\ stack'[t] = Pop(stack[t])
                         /\ ret'[t].kind = "exc"
                         /\ cookie' = cookie
                         /\ nMain'[t] = nMain[t]
                    ELSE /\ cookie' = NoCookie
                         /\ Len(stack'[t]) = Len(stack[t]) + 1
                         /\ IF Top(t).login
                            THEN /\ stack'[t][Len(stack[t])].pc = "relogin"
                                 /\ stack'[t][Len(stack'[t])] = LoginFrame(FALSE)
                            ELSE /\ stack'[t][Len(stack[t])].pc = "tail"
                                 /\ Resends(stack'[t][Len(stack'[t])],
                                            Top(t), FALSE)
            \* the login after the reset has ended
            /\ (At(t, "call", "relogin") /\ stack'[t] # stack[t]) =>
                    IF ret[t].kind = "exc"
                    THEN stack'[t] = Pop(stack[t]) /\ ret'[t].kind = "exc"
                    ELSE /\ Len(stack'[t]) = Len(stack[t]) + 1
                         /\ stack'[t][Len(stack[t])].pc = "tail"
                         /\ Resends(stack'[t][Len(stack'[t])], Top(t), TRUE)
            \* the re-send has ended: its outcome is the call's, nothing more
            \* is sent
            /\ (At(t, "call", "tail") /\ stack'[t] # stack[t]) =>
                    /\ stack'[t] = Pop(stack[t])
                    /\ ret'[t].kind = ret[t].kind
                    /\ ret[t].kind = "resp" => ret'[t] = ret[t]
                    /\ Quiet(t)]_vars

\* get_status (login not allowed) met the conflict: one reset POST, no
\* login, the cookie cleared, the request sent twice and answered
C28_Witness ==
    \E t \in Tasks :
        /\ Done(t)
        /\ result[t].op = "get_status"
        /\ mainHist[t][1].code = SESSION_ALREADY_OPEN
        /\ nReset[t] = 1
        /\ nLogins[t] = 0
        /\ nMain[t] = 2
        /\ cookie = NoCookie
        /\ result[t].ret.kind = "resp"


(***************************************************************************)
(* C29: on the error code NOT_AUTHORIZED, call() logs in and re-sends the  *)
(* request once (with retryAllowed = false) iff no cookie is stored and    *)
(* retry is allowed; with a cookie stored or the retry exhausted it does   *)
(* no login and no retry, leaves the cookie unchanged and fails with the   *)
(* unknown-error-code error that carries the NOT_AUTHORIZED code.          *)
(***************************************************************************)
C29_NotAuthorized ==
    /\ [](\A t \in Tasks :
            FirstAnswer(t, NOT_AUTHORIZED) => nMain[t] <= 2)
    /\ [][\A t \in Tasks :
        /\ (/\ Handled(t)
            /\ IsErrorPage(http[t].resp)
            /\ http[t].resp.code = NOT_AUTHORIZED) =>
                IF cookie = NoCookie /\ Top(t).retry
                THEN /\ Len(stack'[t]) = Len(stack[t]) + 1
                     /\ stack'[t][Len(stack[t])].pc = "login"
                     /\ stack'[t][Len(stack[t])].why = "login_notauth"
                     /\ stack'[t][Len(stack'[t])] = LoginFrame(FALSE)
                     /\ nMain'[t] = nMain[t]
                ELSE /\ FailsWith(t, Exc("Somfy", "UnknownErrorCode",
                                         NOT_AUTHORIZED, 0, ""))
                     /\ Quiet(t)
        /\ (/\ At(t, "call", "login")
            /\ Top(t).why = "login_notauth"
            /\ stack'[t] # stack[t]) =>
                IF ret[t].kind = "exc"
                THEN stack'[t] = Pop(stack[t]) /\ ret'[t].kind = "exc"
                ELSE /\ Len(stack'[t]) = Len(stack[t]) + 1
                     /\ stack'[t][Len(stack[t])].pc = "tail"
                     /\ Resends(stack'[t][Len(stack'[t])], Top(t), FALSE)]_vars

\* a command is refused with NOT_AUTHORIZED while a cookie is stored
C29_Witness ==
    \E t \in Tasks :
        /\ Done(t)
        /\ result[t].op = "command"
        /\ Len(mainHist[t]) = 1
        /\ mainHist[t][1].code = NOT_AUTHORIZED
        /\ result[t].ret =
                RetExc(Exc("Somfy", "UnknownErrorCode", NOT_AUTHORIZED, 0, ""))
        /\ nLogins[t] = 0
        /\ cookie # NoCookie


(***************************************************************************)
(* C33: a call() made with loginAllowed = false (as get_status,            *)
(* get_version, get_challenge, logout and the scrape of the challenge card *)
(* make it) never performs a login, whatever the panel answers (default    *)
(* page, NOT_AUTHORIZED, SESSION_ALREADY_OPEN).                            *)
(***************************************************************************)
C33_NoLoginWithoutLeave ==
    \A t \in Tasks : \A i \in 1..Len(stack[t]) :
        (/\ stack[t][i].fn = "call"
         /\ ~stack[t][i].login
         /\ i < Len(stack[t])) =>
            stack[t][i + 1].fn # "login"


(***************************************************************************)
(* C34: in every interleaving of two concurrent call() invocations on one  *)
(* session, the request a call re-sends after its own successful login     *)
(* (with authenticated = true) carries the cookie of a completed login: it *)
(* is never sent without a Cookie header because the other call's login    *)
(* cleared the cookie in between.                                          *)
(***************************************************************************)
\* t is about to re-send the request of its call after its login
ResendsAfterLogin(t) ==
    /\ At(t, "call", "start")
    /\ Top(t).role = "main"
    /\ ~Top(t).retry
    /\ Top(t).auth
    /\ LoggedIn(t)

C34_ResendCarriesLoginCookie ==
    [][\A t \in Tasks :
        (ResendsAfterLogin(t) /\ http'[t].state = "sent") =>
            /\ http'[t].req.hdr \in CookieVals
            /\ http'[t].req.hdr = lastSetCookie
            /\ http'[t].req.hdr = cookie]_vars

\* the first call has re-sent its command with the cookie of its login,
\* while the login of the second call, which cleared the cookie, is under way
C34_Witness ==
    /\ http[1].state = "sent"
    /\ http[1].req.role = "main"
    /\ ~http[1].req.retry
    /\ http[1].req.auth
    /\ LoggedIn(1)
    /\ http[1].req.hdr \in CookieVals
    /\ nLogins[2] = 1
    /\ ~LoggedIn(2)
    /\ \E i \in 1..Len(stack[2]) : stack[2][i].fn = "login"

(***************************************************************************)
(* C35: guess_and_set_api_type keeps self.api and self.api_type together:  *)
(* when it returns a variant both denote that variant, and when it fails   *)
(* (no candidate matches, a 302, a timeout, a transport error) both are    *)
(* what they were before the call.                                         *)
(***************************************************************************)
C35_AdapterFollowsApiType ==
    GuessDone =>
        IF guess.result.kind = "val"
        THEN /\ guess.api_type = guess.result.val
             /\ guess.api = guess.result.val
        ELSE /\ guess.api_type = NoGuess.api_type
             /\ guess.api = NoGuess.api

(***************************************************************************)
(* C36: the alarm entity reports DISARMED only when a status snapshot      *)
(* exists and shows zoneA, zoneB and zoneC all "off" (o, f, f is 111, 102, *)
(* 102).  Without a snapshot (line 122 reads {} then), or with a zone      *)
(* value missing, val(key) is None and DISARMED is not reported.           *)
(***************************************************************************)
C36_DisarmedNeedsSnapshot ==
    (Parsed("__getCurrentState") /\ parser.val.state = "DISARMED") =>
        \A key \in {"zoneA", "zoneB", "zoneC"} :
            parser.arg.data[key] = <<111, 102, 102>>

(***************************************************************************)
(* C32: both readings of the pause flag are kept.  The raw value of a flag *)
(* is what the code calls raw: the text of the element's field in lower    *)
(* case (get_raw_flag also strips it).  The sensor of the flag "pause" of  *)
(* an element of the coordinator's list is on exactly when the raw value   *)
(* is "running".  The aggregate sensor takes "running" as OK and any other *)
(* non-empty pause value as a problem: it is on iff one of its exposed     *)
(* fields has a non-empty raw value that is not an OK token of the field,  *)
(* and an empty flag is never a problem.                                   *)
(***************************************************************************)
\* the tokens of a field that mean OK
OkTokens(field) ==
    CASE field = "battery" -> {Token.itembattok}
      [] field = "comm" -> {Token.itemcomok, Token.itemboxok}
      [] field = "house" -> {Token.itemhouseok}
      [] field = "tamper" -> {Token.itemboxok}
      [] field = "door" -> {Token.itemdoorok}
      [] field = "pause" -> {Token.running}

\* the field of the element the sensors were built from is a problem
IsProblem(field) ==
    /\ parser.val.element[field] # <<>>
    /\ lower(parser.val.element[field]) \notin OkTokens(field)

Exposed(field) ==
    \E i \in DOMAIN parser.val.fields : parser.val.fields[i] = field

C32_PauseReadings ==
    Parsed("is_on") =>
        /\ parser.val.flag["pause"] <=>
                /\ parser.arg.listed
                /\ lower(strip(parser.val.element.pause)) = Token.running
        /\ Exposed("pause")
        /\ lower(parser.val.element.pause) = Token.running => ~IsProblem("pause")
        /\ (/\ parser.val.element.pause # <<>>
            /\ lower(parser.val.element.pause) # Token.running)
                => parser.val.aggregate
        /\ parser.val.aggregate <=>
                \E field \in {"battery", "comm", "house", "tamper", "door",
                              "pause"} :
                    Exposed(field) /\ IsProblem(field)
        /\ (\A field \in {"battery", "comm", "house", "tamper", "door", "pause"} :
                parser.val.element[field] = <<>>) => ~parser.val.aggregate

\* an element of six exposed fields, each with a token that means OK: the
\* pause flag is "running", its sensor is on and the aggregate sensor is off
C32_Witness ==
    /\ Parsed("is_on")
    /\ parser.arg.listed
    /\ Len(parser.val.fields) = 6
    /\ \A field \in {"battery", "comm", "house", "tamper", "door"} :
            /\ parser.val.element[field] \in OkTokens(field)
            /\ ~IsProblem(field)
    /\ parser.val.element.pause = Token.running
    /\ parser.val.flag["pause"]
    /\ ~parser.val.aggregate

(***************************************************************************)
(* C37: for an element parsed from a page without the optional arrays      *)
(* elt_pile, elt_onde, elt_porte, elt_as, elt_maison and item_pause, the   *)
(* aggregate sensor built from the element is off, whatever the type of    *)
(* its label.                                                              *)
(***************************************************************************)
C37_NoArraysNoProblem ==
    (/\ Parsed("is_on")
     /\ \A name \in {"elt_pile", "elt_onde", "elt_porte", "elt_as",
                     "elt_maison", "item_pause"} :
            ~parser.arg.page[name].present)
        => ~parser.val.aggregate

(***************************************************************************)
(* C31: async_alarm_disarm, async_alarm_arm_home, async_alarm_arm_night    *)
(* and async_alarm_arm_away.  With an arm code configured and another code *)
(* supplied the operation fails with "Invalid code" before any command is  *)
(* sent to the panel and before any refresh is requested; without a        *)
(* configured arm code any supplied code is accepted; a refresh is         *)
(* requested only after the commands of the operation completed without    *)
(* error.                                                                  *)
(***************************************************************************)
AlarmBegun == parser.name \in AlarmOps /\ parser.pc # "call"

C31_ArmCode ==
    AlarmBegun =>
        LET trace == parser.val.trace
            wrong == /\ parser.arg.arm_code # NoCode
                     /\ parser.arg.code # parser.arg.arm_code
            commands == AlarmCommands(parser.name, parser.arg.zones)
        IN  /\ wrong => /\ parser.pc = "return"
                        /\ parser.val.exc = "Invalid code"
                        /\ trace = <<>>
            /\ parser.arg.arm_code = NoCode => parser.val.exc # "Invalid code"
            /\ ~wrong => parser.val.exc # "Invalid code"
            /\ \A i \in DOMAIN trace :
                    trace[i].event = "refresh" =>
                        /\ i = Len(trace)
                        /\ i = Len(commands) + 1
                        /\ \A j \in 1..(i - 1) :
                                /\ trace[j].event = commands[j]
                                /\ ~trace[j].raised
                        /\ parser.val.exc = "None"

\* arm_home is called with the code "0000" while "1234" is configured: it
\* has raised and nothing was sent
C31_Witness ==
    /\ parser.name = "async_alarm_arm_home"
    /\ parser.pc = "return"
    /\ parser.arg.arm_code = "1234"
    /\ parser.arg.code = "0000"
    /\ Len(parser.arg.zones) = 2
    /\ parser.val.exc = "Invalid code"
    /\ parser.val.trace = <<>>

====
